---- MODULE Spec2Model ----
(***************************************************************************)
(* ip2x: reader for IP2Location / IP2Proxy binary databases.               *)
(*                                                                         *)
(* The model follows src/db.go: New parses the 64-byte header, Lookup      *)
(* normalises the address (unmap), probes the optional index and runs the  *)
(* binary search over fixed-width rows, one positional read per step, and  *)
(* the Record getters decode inline and pointer columns.                   *)
(*                                                                         *)
(* Unsigned integers wider than 16 bits are kept as tuples of 16-bit limbs *)
(* (most significant first) so that the uint32 / uint64 arithmetic of the  *)
(* code wraps exactly as it does in Go: a uint32 is <<hi, lo>>, a uint64   *)
(* is a 4-tuple and a uint128 is [hi |-> uint64, lo |-> uint64].           *)
(***************************************************************************)
EXTENDS Integers, Sequences, FiniteSets, TLC

\* ------------------------------------------------------------------------
\* Fixed-width arithmetic
\* ------------------------------------------------------------------------

Limb == 65536

U32Zero == <<0, 0>>

U64Zero == <<0, 0, 0, 0>>

\* uint32(n) for a small non-negative integer n
U32(n) == <<(n \div Limb) % Limb, n % Limb>>

\* x + y in uint32 (wraps modulo 2^32)
U32Add(x, y) ==
  LET lo == x[2] + y[2]
      hi == x[1] + y[1] + (lo \div Limb)
  IN  <<hi % Limb, lo % Limb>>

\* x - 1 in uint32 (0 - 1 wraps to 2^32 - 1)
U32Dec(x) == U32Add(x, <<Limb - 1, Limb - 1>>)

\* x * y in uint32 (wraps modulo 2^32); the low limb of y is split in bytes
\* so that no intermediate product leaves the checker's integer range
U32Mul(x, y) ==
  LET ll0 == x[2] * (y[2] % 256)
      ll1 == x[2] * (y[2] \div 256)
      lo0 == <<(ll0 \div Limb) % Limb, ll0 % Limb>>
      lo1 == <<(ll1 \div 256) % Limb, (ll1 % 256) * 256>>
      cr0 == (x[1] % 256) * y[2] + (x[1] \div 256) * ((y[2] * 256) % Limb)
      cr1 == (y[1] % 256) * x[2] + (y[1] \div 256) * ((x[2] * 256) % Limb)
  IN  U32Add(U32Add(lo0, lo1), <<(cr0 + cr1) % Limb, 0>>)

\* x < y for two limb tuples of the same length
LimbLess(x, y) ==
  \E i \in 1..Len(x) :
    /\ x[i] < y[i]
    /\ \A j \in 1..(i - 1) : x[j] = y[j]

U32Leq(x, y) == ~LimbLess(y, x)

\* ------------------------------------------------------------------------
\* Byte decoding (src/db.go as_le_u32 .. as_be_u128); b is a byte sequence
\* ------------------------------------------------------------------------

as_le_u32(b) == <<b[4] * 256 + b[3], b[2] * 256 + b[1]>>

as_le_u64(b) ==
  <<b[8] * 256 + b[7], b[6] * 256 + b[5], b[4] * 256 + b[3], b[2] * 256 + b[1]>>

as_u32_u128(u32) == [hi |-> U64Zero, lo |-> <<0, 0, u32[1], u32[2]>>]

as_be_u128(b) ==
  [hi |-> as_le_u64(SubSeq(b, 9, 16)), lo |-> as_le_u64(SubSeq(b, 1, 8))]

\* uint128.Less
Less(n, v) == LimbLess(n.hi, v.hi) \/ (n.hi = v.hi /\ LimbLess(n.lo, v.lo))

\* ------------------------------------------------------------------------
\* Descriptor table
\* ------------------------------------------------------------------------

dbft_string == 0

dbft_f32le == 1

IP2Location == 1

IP2Proxy == 2

AddressType == 1
AreaCode == 2
AS == 3
ASN == 4
Category == 5
City == 6
CountryCode == 7
CountryName == 8
Domain == 9
Elevation == 10
IDDCode == 11
ISP == 12
LastSeen == 13
Latitude == 14
Longitude == 15
MCC == 16
MNC == 17
MobileBrand == 18
NetSpeed == 19
Provider == 20
ProxyType == 21
Region == 22
Threat == 23
Timezone == 24
UsageType == 25
WeatherStationCode == 26
WeatherStationName == 27
Zipcode == 28

IP2LocationSchema ==
  {
    [field |-> CountryCode, type |-> dbft_string, ptr |-> 0,
     cols |-> <<2, 2, 2, 2, 2, 2, 2, 2, 2, 2, 2, 2, 2, 2, 2, 2, 2, 2, 2, 2, 2, 2, 2, 2, 2>>],
    [field |-> CountryName, type |-> dbft_string, ptr |-> 3,
     cols |-> <<2, 2, 2, 2, 2, 2, 2, 2, 2, 2, 2, 2, 2, 2, 2, 2, 2, 2, 2, 2, 2, 2, 2, 2, 2>>],
    [field |-> Region, type |-> dbft_string, ptr |-> 0,
     cols |-> <<0, 0, 3, 3, 3, 3, 3, 3, 3, 3, 3, 3, 3, 3, 3, 3, 3, 3, 3, 3, 3, 3, 3, 3, 3>>],
    [field |-> City, type |-> dbft_string, ptr |-> 0,
     cols |-> <<0, 0, 4, 4, 4, 4, 4, 4, 4, 4, 4, 4, 4, 4, 4, 4, 4, 4, 4, 4, 4, 4, 4, 4, 4>>],
    [field |-> Latitude, type |-> dbft_f32le, ptr |-> 255,
     cols |-> <<0, 0, 0, 0, 5, 5, 0, 5, 5, 5, 5, 5, 5, 5, 5, 5, 5, 5, 5, 5, 5, 5, 5, 5, 5>>],
    [field |-> Longitude, type |-> dbft_f32le, ptr |-> 255,
     cols |-> <<0, 0, 0, 0, 6, 6, 0, 6, 6, 6, 6, 6, 6, 6, 6, 6, 6, 6, 6, 6, 6, 6, 6, 6, 6>>],
    [field |-> Zipcode, type |-> dbft_string, ptr |-> 0,
     cols |-> <<0, 0, 0, 0, 0, 0, 0, 0, 7, 7, 7, 7, 0, 7, 7, 7, 0, 7, 0, 7, 7, 7, 0, 7, 7>>],
    [field |-> Timezone, type |-> dbft_string, ptr |-> 0,
     cols |-> <<0, 0, 0, 0, 0, 0, 0, 0, 0, 0, 8, 8, 7, 8, 8, 8, 7, 8, 0, 8, 8, 8, 0, 8, 8>>],
    [field |-> ISP, type |-> dbft_string, ptr |-> 0,
     cols |-> <<0, 3, 0, 5, 0, 7, 5, 7, 0, 8, 0, 9, 0, 9, 0, 9, 0, 9, 7, 9, 0, 9, 7, 9, 9>>],
    [field |-> Domain, type |-> dbft_string, ptr |-> 0,
     cols |-> <<0, 0, 0, 0, 0, 0, 6, 8, 0, 9, 0, 10, 0, 10, 0, 10, 0, 10, 8, 10, 0, 10, 8, 10, 10>>],
    [field |-> NetSpeed, type |-> dbft_string, ptr |-> 0,
     cols |-> <<0, 0, 0, 0, 0, 0, 0, 0, 0, 0, 0, 0, 8, 11, 0, 11, 8, 11, 0, 11, 0, 11, 0, 11, 11>>],
    [field |-> IDDCode, type |-> dbft_string, ptr |-> 0,
     cols |-> <<0, 0, 0, 0, 0, 0, 0, 0, 0, 0, 0, 0, 0, 0, 9, 12, 0, 12, 0, 12, 9, 12, 0, 12, 12>>],
    [field |-> AreaCode, type |-> dbft_string, ptr |-> 0,
     cols |-> <<0, 0, 0, 0, 0, 0, 0, 0, 0, 0, 0, 0, 0, 0, 10, 13, 0, 13, 0, 13, 10, 13, 0, 13, 13>>],
    [field |-> WeatherStationCode, type |-> dbft_string, ptr |-> 0,
     cols |-> <<0, 0, 0, 0, 0, 0, 0, 0, 0, 0, 0, 0, 0, 0, 0, 0, 9, 14, 0, 14, 0, 14, 0, 14, 14>>],
    [field |-> WeatherStationName, type |-> dbft_string, ptr |-> 0,
     cols |-> <<0, 0, 0, 0, 0, 0, 0, 0, 0, 0, 0, 0, 0, 0, 0, 0, 10, 15, 0, 15, 0, 15, 0, 15, 15>>],
    [field |-> MCC, type |-> dbft_string, ptr |-> 0,
     cols |-> <<0, 0, 0, 0, 0, 0, 0, 0, 0, 0, 0, 0, 0, 0, 0, 0, 0, 0, 9, 16, 0, 16, 9, 16, 16>>],
    [field |-> MNC, type |-> dbft_string, ptr |-> 0,
     cols |-> <<0, 0, 0, 0, 0, 0, 0, 0, 0, 0, 0, 0, 0, 0, 0, 0, 0, 0, 10, 17, 0, 17, 10, 17, 17>>],
    [field |-> MobileBrand, type |-> dbft_string, ptr |-> 0,
     cols |-> <<0, 0, 0, 0, 0, 0, 0, 0, 0, 0, 0, 0, 0, 0, 0, 0, 0, 0, 11, 18, 0, 18, 11, 18, 18>>],
    [field |-> Elevation, type |-> dbft_string, ptr |-> 0,
     cols |-> <<0, 0, 0, 0, 0, 0, 0, 0, 0, 0, 0, 0, 0, 0, 0, 0, 0, 0, 0, 0, 11, 19, 0, 19, 19>>],
    [field |-> UsageType, type |-> dbft_string, ptr |-> 0,
     cols |-> <<0, 0, 0, 0, 0, 0, 0, 0, 0, 0, 0, 0, 0, 0, 0, 0, 0, 0, 0, 0, 0, 0, 12, 20, 20>>],
    [field |-> AddressType, type |-> dbft_string, ptr |-> 0,
     cols |-> <<0, 0, 0, 0, 0, 0, 0, 0, 0, 0, 0, 0, 0, 0, 0, 0, 0, 0, 0, 0, 0, 0, 0, 0, 21>>],
    [field |-> Category, type |-> dbft_string, ptr |-> 0,
     cols |-> <<0, 0, 0, 0, 0, 0, 0, 0, 0, 0, 0, 0, 0, 0, 0, 0, 0, 0, 0, 0, 0, 0, 0, 0, 22>>]
  }

IP2ProxySchema ==
  {
    [field |-> CountryCode, type |-> dbft_string, ptr |-> 0,
     cols |-> <<2, 3, 3, 3, 3, 3, 3, 3, 3, 3, 3>>],
    [field |-> CountryName, type |-> dbft_string, ptr |-> 3,
     cols |-> <<2, 3, 3, 3, 3, 3, 3, 3, 3, 3, 3>>],
    [field |-> ProxyType, type |-> dbft_string, ptr |-> 0,
     cols |-> <<0, 2, 2, 2, 2, 2, 2, 2, 2, 2, 2>>],
    [field |-> Region, type |-> dbft_string, ptr |-> 0,
     cols |-> <<0, 0, 4, 4, 4, 4, 4, 4, 4, 4, 4>>],
    [field |-> City, type |-> dbft_string, ptr |-> 0,
     cols |-> <<0, 0, 5, 5, 5, 5, 5, 5, 5, 5, 5>>],
    [field |-> ISP, type |-> dbft_string, ptr |-> 0,
     cols |-> <<0, 0, 0, 6, 6, 6, 6, 6, 6, 6, 6>>],
    [field |-> Domain, type |-> dbft_string, ptr |-> 0,
     cols |-> <<0, 0, 0, 0, 7, 7, 7, 7, 7, 7, 7>>],
    [field |-> UsageType, type |-> dbft_string, ptr |-> 0,
     cols |-> <<0, 0, 0, 0, 0, 8, 8, 8, 8, 8, 8>>],
    [field |-> ASN, type |-> dbft_string, ptr |-> 0,
     cols |-> <<0, 0, 0, 0, 0, 0, 9, 9, 9, 9, 9>>],
    [field |-> AS, type |-> dbft_string, ptr |-> 0,
     cols |-> <<0, 0, 0, 0, 0, 0, 10, 10, 10, 10, 10>>],
    [field |-> LastSeen, type |-> dbft_string, ptr |-> 0,
     cols |-> <<0, 0, 0, 0, 0, 0, 0, 11, 11, 11, 11>>],
    [field |-> Threat, type |-> dbft_string, ptr |-> 0,
     cols |-> <<0, 0, 0, 0, 0, 0, 0, 0, 12, 12, 12>>],
    [field |-> Provider, type |-> dbft_string, ptr |-> 0,
     cols |-> <<0, 0, 0, 0, 0, 0, 0, 0, 0, 0, 13>>]
  }

\* per-product schema rows (src/db.go, consts IP2Location and IP2Proxy)
ProductSchema(p) ==
  CASE p = IP2Location -> IP2LocationSchema
    [] p = IP2Proxy -> IP2ProxySchema
    [] OTHER -> {}

dbProductUpper == 3

dbTypeUpper == 26

dbFieldUpper == 29

\* the zero dbfd: IsValid() is false, the accessors read the inverted bits
dbfdZero == [valid |-> FALSE, column |-> 255, ptroffset |-> 255, type |-> 15]

\* schema rows of product p that give field f a column in db-type t
SchemaRows(t, p, f) ==
  {r \in ProductSchema(p) : r.field = f /\ t \in 1..Len(r.cols) /\ r.cols[t] # 0}

\* dbfds[t][p][f] for indexes inside the table
dbfdOf(r, t) ==
  [valid |-> TRUE, column |-> r.cols[t], ptroffset |-> r.ptr, type |-> r.type]

dbfdFrom(rows, t) ==
  IF rows = {} THEN dbfdZero ELSE dbfdOf(CHOOSE r \in rows : TRUE, t)

dbfds(t, p, f) == dbfdFrom(SchemaRows(t, p, f), t)

\* dbexpcols[t][p]: IPFrom plus one column per distinct column number
dbexpcols(t, p) ==
  LET used == {r.cols[t] : r \in {x \in ProductSchema(p) : t \in 1..Len(x.cols) /\ x.cols[t] # 0}}
  IN  IF used = {} THEN 0 ELSE 1 + Cardinality(used)

\* DBProduct.SupportsType
SupportsType(p, t) ==
  p # 0 /\ t # 0 /\ p < dbProductUpper /\ t < dbTypeUpper /\ dbexpcols(t, p) # 0

\* ------------------------------------------------------------------------
\* The positional reader
\* ------------------------------------------------------------------------

VARIABLES
  reader,   \* the io.ReaderAt: [data, len, eofAtEnd], never written
  db,       \* the header fields of the handle returned by New (ZeroDB if none)
  openErr,  \* the error returned by New ("pending" before New has run)
  qs,       \* per query: position in Lookup, locals, returned Record and error
  last,     \* outcome of the latest undisturbed lookup of a native IPv4 address
  ioFailed, \* a Lookup on the handle has returned an I/O error
  RecordStringColor,      \* package variable: default colour option of Record.String
  RecordStringMultiline,  \* package variable: default multiline option of Record.String
  gen,      \* the schema parser: its input and what it returned
  cli,      \* the command: its argv, parsed options, output and exit code
  ip2location  \* package ip2location: the header New reads and what New returned

vars ==
  <<reader, db, openErr, qs, last, ioFailed, RecordStringColor, RecordStringMultiline, gen, cli, ip2location>>

\* what the library never touches: the package options, the parser, the command
others == <<RecordStringColor, RecordStringMultiline, gen, cli, ip2location>>

Nil == "nil"

Min(a, b) == IF a < b THEN a ELSE b

\* byte at absolute offset o; bytes the file does not spell out are zero
ByteAt(o) == IF o \in DOMAIN reader.data THEN reader.data[o] ELSE 0

\* r.ReadAt(buf[:n], int64(off)) for a uint32 off: a short read reports io.EOF;
\* a full read that ends exactly at the end of the source reports io.EOF or nil
\* depending on the reader (io.ReaderAt allows both)
ReadAt(n, off) ==
  IF off[1] >= Limb \div 2
  THEN [n |-> 0, b |-> <<>>, err |-> "EOF"]
  ELSE LET o == off[1] * Limb + off[2]
           got == IF o >= reader.len THEN 0 ELSE Min(n, reader.len - o)
       IN  [n |-> got,
            b |-> [k \in 1..got |-> ByteAt(o + k - 1)],
            err |-> IF got < n \/ (o + n = reader.len /\ reader.eofAtEnd)
                    THEN "EOF" ELSE Nil]

\* a read the underlying source fails (device error)
ReadFault == [n |-> 0, b |-> <<>>, err |-> "EIO"]

\* the outcomes a positional read can have
ReadOutcomes(n, off) == {ReadAt(n, off), ReadFault}

\* ------------------------------------------------------------------------
\* New
\* ------------------------------------------------------------------------

\* the header fields decoded from the 64 header bytes (1-based sequence)
DecodeHeader(row) ==
  [dbtype |-> row[1], dbcolumn |-> row[2],
   dbyear |-> row[3], dbmonth |-> row[4], dbday |-> row[5],
   ip4count |-> as_le_u32(SubSeq(row, 6, 9)), ip4base |-> as_le_u32(SubSeq(row, 10, 13)),
   ip6count |-> as_le_u32(SubSeq(row, 14, 17)), ip6base |-> as_le_u32(SubSeq(row, 18, 21)),
   ip4idx |-> as_le_u32(SubSeq(row, 22, 25)), ip6idx |-> as_le_u32(SubSeq(row, 26, 29)),
   prcode |-> row[30], prtype |-> row[31],
   filesize |-> as_le_u32(SubSeq(row, 32, 35))]

\* the fields of a DB that was never filled in (New returned a nil handle)
ZeroDB ==
  [dbtype |-> 0, dbcolumn |-> 0, dbyear |-> 0, dbmonth |-> 0, dbday |-> 0,
   ip4count |-> U32Zero, ip4base |-> U32Zero, ip6count |-> U32Zero, ip6base |-> U32Zero,
   ip4idx |-> U32Zero, ip6idx |-> U32Zero, prcode |-> 0, prtype |-> 0,
   filesize |-> U32Zero]

\* New with the age of the database checked before its date
NewResultAgeFirst(rd) ==
  IF rd.err # Nil THEN [db |-> ZeroDB, err |-> rd.err]
  ELSE LET h == DecodeHeader(rd.b) IN
    IF rd.b[1] = 80 /\ rd.b[2] = 75
      THEN [db |-> ZeroDB, err |-> "database is zipped"]
    ELSE IF h.dbyear < 21
      THEN [db |-> ZeroDB, err |-> "database is too old"]
    ELSE IF h.dbmonth = 0 \/ h.dbmonth > 12 \/ h.dbday = 0 \/ h.dbday > 31
      THEN [db |-> ZeroDB, err |-> "database is corrupt"]
    ELSE IF ~SupportsType(h.prcode, h.dbtype)
      THEN [db |-> ZeroDB, err |-> "unsupported database"]
    ELSE IF h.dbcolumn # dbexpcols(h.dbtype, h.prcode)
      THEN [db |-> ZeroDB, err |-> "database is corrupt or library is buggy"]
    ELSE [db |-> h, err |-> Nil]

\* New(r) given the outcome rd of the 64-byte read at offset 0
NewResult(rd) ==
  IF rd.err # Nil THEN [db |-> ZeroDB, err |-> rd.err]
  ELSE LET h == DecodeHeader(rd.b) IN
    IF rd.b[1] = 80 /\ rd.b[2] = 75
      THEN [db |-> ZeroDB, err |-> "database is zipped"]
    ELSE IF h.dbmonth = 0 \/ h.dbmonth > 12 \/ h.dbday = 0 \/ h.dbday > 31
      THEN [db |-> ZeroDB, err |-> "database is corrupt"]
    ELSE IF h.dbyear < 21
      THEN [db |-> ZeroDB, err |-> "database is too old"]
    ELSE IF ~SupportsType(h.prcode, h.dbtype)
      THEN [db |-> ZeroDB, err |-> "unsupported database"]
    ELSE IF h.dbcolumn # dbexpcols(h.dbtype, h.prcode)
      THEN [db |-> ZeroDB, err |-> "database is corrupt or library is buggy"]
    ELSE [db |-> h, err |-> Nil]

\* ------------------------------------------------------------------------
\* Lookup
\* ------------------------------------------------------------------------

\* a nil byte slice and a non-nil one (an empty slice is not nil)
NilSlice == [nil |-> TRUE, b |-> <<>>]

Slice(b) == [nil |-> FALSE, b |-> b]

\* the zero Record
ZeroRecord == [r |-> Nil, p |-> 0, t |-> 0, d |-> NilSlice]

\* the zero netip.Addr (what netip.ParseAddr returns on a parse error)
ZeroAddr == [z |-> "z0", hi |-> U64Zero, lo |-> U64Zero]

\* netip.Addr.IsValid
AddrIsValid(a) == a.z # "z0"

\* as_ip6_uint8: the first 16 bytes of a netip.Addr are its uint128
as_ip6_uint8(a) == [hi |-> a.hi, lo |-> a.lo]

\* unmap that takes the low 32 bits of a Teredo address as they are
unmapPlain(a0) ==
  LET a == IF a0.hi[1] = 8194
           THEN [hi |-> U64Zero, lo |-> <<0, 65535, a0.hi[2], a0.hi[3]>>]
           ELSE IF a0.hi[1] = 8193 /\ a0.hi[2] = 0
           THEN [hi |-> U64Zero, lo |-> <<0, 65535, a0.lo[3], a0.lo[4]>>]
           ELSE a0
  IN  IF a.hi = U64Zero /\ a.lo[1] = 0 /\ a.lo[2] = 65535
      THEN <<[hi |-> a.hi, lo |-> <<0, 0, a.lo[3], a.lo[4]>>], 4>>
      ELSE <<a, 16>>

\* unmap that takes the 32 bits of a 6to4 address 16 bits too low
unmapLow(a0) ==
  LET a == IF a0.hi[1] = 8194
           THEN [hi |-> U64Zero, lo |-> <<0, 65535, a0.hi[3], a0.hi[4]>>]
           ELSE IF a0.hi[1] = 8193 /\ a0.hi[2] = 0
           THEN [hi |-> U64Zero,
                 lo |-> <<0, 65535, (Limb - 1) - a0.lo[3], (Limb - 1) - a0.lo[4]>>]
           ELSE a0
  IN  IF a.hi = U64Zero /\ a.lo[1] = 0 /\ a.lo[2] = 65535
      THEN <<[hi |-> a.hi, lo |-> <<0, 0, a.lo[3], a.lo[4]>>], 4>>
      ELSE <<a, 16>>

\* unmap: <<address, ip byte length>>
unmap(a0) ==
  LET a == IF a0.hi[1] = 8194                        \* a.hi>>48 == 0x2002
           THEN [hi |-> U64Zero, lo |-> <<0, 65535, a0.hi[2], a0.hi[3]>>]
           ELSE IF a0.hi[1] = 8193 /\ a0.hi[2] = 0   \* a.hi>>32 == 0x20010000
           THEN [hi |-> U64Zero,
                 lo |-> <<0, 65535, (Limb - 1) - a0.lo[3], (Limb - 1) - a0.lo[4]>>]
           ELSE a0
  IN  IF a.hi = U64Zero /\ a.lo[1] = 0 /\ a.lo[2] = 65535
      THEN <<[hi |-> a.hi, lo |-> <<0, 0, a.lo[3], a.lo[4]>>], 4>>
      ELSE <<a, 16>>

\* a query that has not looked anything up yet; str is the argument of
\* LookupString ("" for Lookup), a the netip.Addr handed to Lookup
IdleQuery ==
  [pc |-> "idle", str |-> "", a |-> ZeroAddr, ip |-> [hi |-> U64Zero, lo |-> U64Zero], iplen |-> 0,
   colsize |-> U32Zero, off |-> U32Zero, lower |-> U32Zero, upper |-> U32Zero,
   rec |-> ZeroRecord, err |-> Nil, nreads |-> 0, faulted |-> FALSE,
   roff |-> U32Zero, out |-> [op |-> "none"]]

\* Lookup returns rec and drops the error
ReturnQuietly(s, rec, err) == [s EXCEPT !.pc = "done", !.rec = rec, !.err = Nil]

\* Lookup returns rec and err
Return(s, rec, err) == [s EXCEPT !.pc = "done", !.rec = rec, !.err = err]

\* the head of the search loop: leave it when lower > upper (not found)
LoopHead(s) ==
  IF U32Leq(s.lower, s.upper) THEN [s EXCEPT !.pc = "search"]
  ELSE Return(s, ZeroRecord, Nil)

\* Lookup of a valid address, from unmap up to its first positional read
LookupRange(s, a) ==
  LET um == unmap(as_ip6_uint8(a))
      ip == um[1]
      iplen == um[2]
      colsize == U32(iplen + ((db.dbcolumn + 255) % 256) * 4)
      idx == IF iplen = 4 THEN db.ip4idx ELSE db.ip6idx
      cnt == IF iplen = 4 THEN db.ip4count ELSE db.ip6count
      pre == IF iplen = 4 THEN U32Mul(<<ip.lo[2], ip.lo[3]>>, U32(8))  \* uint32(ip.lo>>16<<3)
             ELSE U32(ip.hi[1] * 8)                       \* uint32(ip.hi>>48<<3)
      off == IF idx # U32Zero THEN U32Add(idx, U32Dec(pre)) ELSE idx
      upper == IF idx # U32Zero THEN U32Zero ELSE cnt
      s1 == [s EXCEPT !.ip = ip, !.iplen = iplen, !.colsize = colsize,
                      !.off = off, !.lower = U32Zero, !.upper = upper]
  IN  IF off # U32Zero THEN [s1 EXCEPT !.pc = "index"] ELSE LoopHead(s1)

\* Lookup that searches for any netip.Addr, the zero Addr included
LookupEnterAny(s0, a) == LookupRange([IdleQuery EXCEPT !.a = a], a)

\* Lookup up to its first positional read
LookupEnter(s0, a) ==
  IF ~AddrIsValid(a) THEN Return([IdleQuery EXCEPT !.a = a], ZeroRecord, Nil)
  ELSE LookupRange([IdleQuery EXCEPT !.a = a], a)

\* the index probe, given the outcome rd of its 8-byte read
IndexProbe(s, rd) ==
  LET s1 == [s EXCEPT !.nreads = @ + 1, !.roff = s.off, !.faulted = (rd.err = "EIO")] IN
  IF rd.err # Nil THEN Return(s1, ZeroRecord, rd.err)
  ELSE LoopHead([s1 EXCEPT !.lower = as_le_u32(SubSeq(rd.b, 1, 4)),
                           !.upper = as_le_u32(SubSeq(rd.b, 5, 8))])

\* mid and the row offset of one iteration of the binary search
Mid(s) ==
  LET x == U32Add(s.lower, s.upper) IN
  <<x[1] \div 2, (x[1] % 2) * (Limb \div 2) + (x[2] \div 2)>>

\* the row offset with the 1-based array base taken as a 0-based offset
RowOffZeroBased(s) ==
  U32Add(U32Mul(Mid(s), s.colsize), IF s.iplen = 4 THEN db.ip4base ELSE db.ip6base)

RowOff(s) ==
  U32Add(U32Mul(Mid(s), s.colsize),
         U32Dec(IF s.iplen = 4 THEN db.ip4base ELSE db.ip6base))

\* the row buffer holds the columns and the next row's IPFrom
RowLen(s) == s.colsize[2] + s.iplen

\* one iteration of the binary search, given the outcome rd of its row read
SearchIter(s, rd) ==
  LET mid == Mid(s)
      cs == s.colsize[2]
      s1 == [s EXCEPT !.nreads = @ + 1, !.off = RowOff(s), !.roff = RowOff(s),
                      !.faulted = (rd.err = "EIO")]
  IN
  IF rd.err # Nil THEN Return(s1, ZeroRecord, rd.err)
  ELSE
    LET row == rd.b
        ipfrom == IF s.iplen = 4 THEN as_u32_u128(as_le_u32(SubSeq(row, 1, 4)))
                  ELSE as_be_u128(SubSeq(row, 1, 16))
        ipto == IF s.iplen = 4 THEN as_u32_u128(as_le_u32(SubSeq(row, cs + 1, cs + 4)))
                ELSE as_be_u128(SubSeq(row, cs + 1, cs + 16))
    IN  IF Less(s.ip, ipfrom) THEN LoopHead([s1 EXCEPT !.upper = U32Dec(mid)])
        ELSE IF ipto = s.ip \/ Less(ipto, s.ip)
          THEN LoopHead([s1 EXCEPT !.lower = U32Add(mid, U32(1))])
        ELSE Return(s1, [r |-> "reader", p |-> db.prcode, t |-> db.dbtype,
                         d |-> Slice(SubSeq(row, s.iplen + 1, cs))], Nil)

\* ------------------------------------------------------------------------
\* Record
\* ------------------------------------------------------------------------

\* IsValid with the test the wrong way round
IsValidInverted(r) == r.d.nil

\* Record.IsValid
IsValid(r) == ~r.d.nil

\* b[from:] of a byte sequence (0-based from)
From(b, from) == SubSeq(b, from + 1, Len(b))

\* b[:n]
Upto(b, n) == SubSeq(b, 1, n)

\* what Record.get returns when it panics (index out of range)
GetPanic == [dt |-> NilSlice, fd |-> dbfdZero, err |-> "panic", panic |-> TRUE,
             reads |-> 0, roff |-> U32Zero]

\* get's return values, with the number of positional reads it issued
GetReturn(dt, fd, err, reads, roff) ==
  [dt |-> dt, fd |-> fd, err |-> err, panic |-> FALSE, reads |-> reads, roff |-> roff]

\* the parse step of get: the field's bytes inside data, nil when too short;
\* the upper bound 1+data[0] of the string's slice is a uint8 sum
ParseData(data, fd, sz) ==
  IF Len(data) = 0 THEN NilSlice
  ELSE IF fd.type = dbft_string
    THEN IF Len(data) > data[1] THEN Slice(SubSeq(data, 2, (1 + data[1]) % 256)) ELSE NilSlice
  ELSE IF Len(data) >= sz THEN Slice(data) ELSE NilSlice

\* get's final "too short" check
GetChecked(dt, fd, err, reads, roff) ==
  GetReturn(dt, fd, IF dt.nil THEN "unexpected EOF" ELSE err, reads, roff)

\* get from its parse step on; data[1 : 1+data[0]] panics (slice bounds out
\* of range) when the uint8 sum has wrapped below the lower bound
GetParse(data, fd, sz, err, reads, roff) ==
  IF /\ fd.type = dbft_string /\ Len(data) # 0 /\ Len(data) > data[1]
     /\ (1 + data[1]) % 256 < 1
  THEN [GetPanic EXCEPT !.fd = fd, !.reads = reads, !.roff = roff]
  ELSE GetChecked(ParseData(data, fd, sz), fd, err, reads, roff)

\* get after its ReadAt returned rd
GetRead(rd, at, fd, sz) ==
  IF rd.err = Nil \/ rd.err = "EOF"
  THEN GetParse(rd.b, fd, sz, rd.err, 1, at)
  ELSE GetReturn(NilSlice, fd, rd.err, 1, at)

\* the offset get would read at if it left out the field's pointer offset
PointerPlain(tail, fd) == as_le_u32(tail)

\* the offset get reads a pointed-to value at: uint32 arithmetic
PointerTarget(tail, fd) == U32Add(as_le_u32(tail), U32(fd.ptroffset))

\* get's positional read; fault tells whether the source fails it
GetPointed(at, fd, sz, fault) ==
  GetRead(IF fault THEN ReadFault ELSE ReadAt(sz, at), at, fd, sz)

\* get on the record bytes from the field's column on
GetData(tail, fd, sz, fault) ==
  IF fd.ptroffset = 255
    THEN GetParse(IF Len(tail) > sz THEN Upto(tail, sz) ELSE tail, fd, sz, Nil, 0, U32Zero)
  ELSE IF Len(tail) >= 4
    THEN GetPointed(PointerTarget(tail, fd), fd, sz, fault)
  ELSE GetParse(tail, fd, sz, Nil, 0, U32Zero)

\* the maximum field size get reads
FieldSize(fd) == IF fd.type = dbft_string THEN 1 + 255 ELSE 32 \div 4

\* get that goes on to the column of a descriptor without looking at IsValid
GetFieldAnyway(r, fd, fault) ==
  IF fd.type \notin {dbft_string, dbft_f32le} THEN GetPanic
  ELSE IF (fd.column - 2) * 4 > Len(r.d.b) THEN GetPanic
  ELSE GetData(From(r.d.b, (fd.column - 2) * 4), fd, FieldSize(fd), fault)

\* get with the field descriptor looked up
GetField(r, fd, fault) ==
  IF ~fd.valid THEN GetReturn(NilSlice, fd, Nil, 0, U32Zero)
  ELSE IF fd.type \notin {dbft_string, dbft_f32le} THEN GetPanic
  ELSE IF (fd.column - 2) * 4 > Len(r.d.b) THEN GetPanic
  ELSE GetData(From(r.d.b, (fd.column - 2) * 4), fd, FieldSize(fd), fault)

\* Record.get; fault tells whether the source fails the read get may issue
get(r, f, fault) ==
  IF ~IsValid(r) THEN GetReturn(NilSlice, dbfdZero, Nil, 0, U32Zero)
  ELSE IF f < 0 \/ f >= dbFieldUpper THEN GetPanic
  ELSE GetField(r, dbfds(r.t, r.p, f), fault)

\* values handed to the caller
NoValue == [kind |-> "nil", v |-> <<>>]

StringValue(b) == [kind |-> "string", v |-> b]

\* as_f32(as_le_u32(dt)): the float32 with these bits
Float32Bits(dt) == [kind |-> "float32", v |-> as_le_u32(dt)]

\* strconv.FormatFloat(float64(f), 'f', -1, 32) of the float32 with these bits
FormatFloat(dt) == [kind |-> "formatted", v |-> as_le_u32(dt)]

IsDigit(c) == c \in 48..57

RECURSIVE DigitsValue(_)
DigitsValue(s) ==
  IF s = <<>> THEN 0 ELSE DigitsValue(Upto(s, Len(s) - 1)) * 10 + (s[Len(s)] - 48)

\* strconv.ParseFloat(s, 32) on plain decimal text: an optional sign, digits
\* with at most one '.', at least one digit; anything else is a syntax error.
\* The value is (-1)^neg * mant / 10^scale.
ParseFloat(s) ==
  LET signed == Len(s) > 0 /\ s[1] \in {43, 45}
      body == IF signed THEN Tail(s) ELSE s
      dots == {i \in 1..Len(body) : body[i] = 46}
      digs == {i \in 1..Len(body) : IsDigit(body[i])}
      ok == Cardinality(dots) <= 1 /\ digs # {} /\ dots \cup digs = 1..Len(body)
      dot == IF dots = {} THEN Len(body) ELSE CHOOSE i \in dots : TRUE
  IN  IF ~ok THEN [ok |-> FALSE, v |-> <<>>]
      ELSE [ok |-> TRUE,
            v |-> <<IF signed /\ s[1] = 45 THEN 1 ELSE 0,
                    DigitsValue(SelectSeq(body, IsDigit)),
                    Len(body) - dot>>]

\* float32(v) of a parsed decimal
Float32Dec(v) == [kind |-> "float32dec", v |-> v]

\* the type switch of Get on what get returned
GetValue(g) ==
  IF g.panic THEN [v |-> NoValue, panic |-> TRUE, g |-> g]
  ELSE [v |-> IF g.dt.nil THEN NoValue
              ELSE IF g.fd.type = dbft_string THEN StringValue(g.dt.b)
              ELSE IF g.fd.type = dbft_f32le THEN Float32Bits(g.dt.b)
              ELSE NoValue,
        panic |-> FALSE, g |-> g]

\* Record.Get
Get(r, f, fault) == GetValue(get(r, f, fault))

\* return "", false
NoString(g) == [v |-> StringValue(<<>>), ok |-> FALSE, panic |-> g.panic, g |-> g]

\* the type switch of GetString on what get returned
GetStringValue(g) ==
  IF g.panic \/ g.dt.nil THEN NoString(g)
  ELSE IF g.fd.type = dbft_string
    THEN [v |-> StringValue(g.dt.b), ok |-> TRUE, panic |-> FALSE, g |-> g]
  ELSE IF g.fd.type = dbft_f32le
    THEN [v |-> FormatFloat(g.dt.b), ok |-> TRUE, panic |-> FALSE, g |-> g]
  ELSE NoString(g)

\* Record.GetString
GetString(r, f, fault) == GetStringValue(get(r, f, fault))

\* the float32 zero returned with ok == false
Float32Zero == [kind |-> "float32", v |-> U32Zero]

\* return 0, false
NoFloat32(g) == [v |-> Float32Zero, ok |-> FALSE, panic |-> g.panic, g |-> g]

\* GetFloat32 on a string column that answers a parse error with a zero
ParsedOrZero(pf, g) ==
  [v |-> IF pf.ok THEN Float32Dec(pf.v) ELSE Float32Zero, ok |-> TRUE,
   panic |-> FALSE, g |-> g]

\* GetFloat32 on a string column, pf being strconv.ParseFloat's result
ParsedFloat32(pf, g) ==
  IF pf.ok THEN [v |-> Float32Dec(pf.v), ok |-> TRUE, panic |-> FALSE, g |-> g]
  ELSE NoFloat32(g)

\* the type switch of GetFloat32 on what get returned
GetFloat32Value(g) ==
  IF g.panic \/ g.dt.nil THEN NoFloat32(g)
  ELSE IF g.fd.type = dbft_string THEN ParsedFloat32(ParseFloat(g.dt.b), g)
  ELSE IF g.fd.type = dbft_f32le
    THEN [v |-> Float32Bits(g.dt.b), ok |-> TRUE, panic |-> FALSE, g |-> g]
  ELSE NoFloat32(g)

\* Record.GetFloat32
GetFloat32(r, f, fault) == GetFloat32Value(get(r, f, fault))

\* DB.Has
Has(f) ==
  IF f < 0 \/ f >= dbFieldUpper THEN [v |-> FALSE, panic |-> TRUE]
  ELSE [v |-> dbfds(db.dbtype, db.prcode, f).valid, panic |-> FALSE]

\* Text is built as a sequence of tokens; the empty string is <<>>
Lit(s) == [k |-> "lit", s |-> s, b |-> <<>>]

Tok(k, b) == [k |-> k, s |-> "", b |-> b]

Opt(c, s) == IF c THEN <<Lit(s)>> ELSE <<>>

\* the text FormatString writes for field f, n fields having been written
FormatField(g, f, n, color, multiline) ==
  IF ~g.fd.valid THEN <<>>
  ELSE (IF n + 1 > 1 THEN <<Lit(IF multiline THEN "\n  " ELSE " ")>> ELSE <<>>)
       \o Opt(color, "ESC[35m") \o <<Tok("column", <<f>>)>> \o Opt(color, "ESC[0m")
       \o <<Lit(IF multiline THEN " " ELSE "=")>>
       \o (IF ~g.dt.nil
           THEN IF g.fd.type = dbft_string
                THEN Opt(color, "ESC[33m") \o <<Tok("quote", g.dt.b)>>
                ELSE Opt(color, "ESC[32m") \o <<Tok("float", as_le_u32(g.dt.b))>>
           ELSE IF g.err # Nil
                THEN Opt(color, "ESC[31m") \o <<Lit("<error: "), Lit(g.err), Lit(">")>>
                ELSE <<>>)
       \o Opt(color, "ESC[0m")

RECURSIVE FormatFields(_, _, _, _, _, _)
\* the loop over the fields, continued after field f wrote text t
FormatRest(t, r, f, n, color, multiline, bad) ==
  t \o FormatFields(r, f + 1, IF t = <<>> THEN n ELSE n + 1, color, multiline, bad)

FormatFields(r, f, n, color, multiline, bad) ==
  IF f >= dbFieldUpper THEN <<>>
  ELSE FormatRest(FormatField(get(r, f, f \in bad), f, n, color, multiline),
                  r, f, n, color, multiline, bad)

\* Record.FormatString; bad is the set of fields whose read the source fails
FormatString(r, color, multiline, bad) ==
  IF ~IsValid(r) THEN <<>>
  ELSE Opt(color, "ESC[34m") \o <<Tok("product", <<r.p>>)>> \o Opt(color, "ESC[0m")
       \o <<Lit("<"), Tok("type", <<r.p, r.t>>), Lit(">")>> \o Opt(color, "ESC[0m")
       \o <<Lit(IF multiline THEN "{\n  " ELSE "{")>>
       \o FormatFields(r, 1, 0, color, multiline, bad)
       \o <<Lit(IF multiline THEN "\n}" ELSE "}")>>
       \o Opt(color, "ESC[0m")

RECURSIVE MarshalFields(_, _, _, _)
\* the text MarshalJSON writes for a present field f, before the text of the rest
MarshalField(g, f, n, rest) ==
  [out |-> (IF n + 1 > 1 THEN <<Lit(",")>> ELSE <<>>)
           \o <<Lit("\""), Tok("column", <<f>>), Lit("\""), Lit(":")>>
           \o (IF g.fd.type = dbft_string THEN <<Tok("quote", g.dt.b)>>
               ELSE <<Tok("float", as_le_u32(g.dt.b))>>)
           \o rest.out,
   err |-> rest.err]

\* one iteration of MarshalJSON's loop, g being what get returned for f
MarshalStep(g, r, f, n, bad) ==
  IF ~g.dt.nil THEN MarshalField(g, f, n, MarshalFields(r, f + 1, n + 1, bad))
  ELSE IF g.err # Nil THEN [out |-> <<>>, err |-> g.err]
  ELSE MarshalFields(r, f + 1, n, bad)

MarshalFields(r, f, n, bad) ==
  IF f >= dbFieldUpper THEN [out |-> <<>>, err |-> Nil]
  ELSE MarshalStep(get(r, f, f \in bad), r, f, n, bad)

\* MarshalJSON's return values after the loop
MarshalDone(m) ==
  IF m.err # Nil THEN [out |-> <<>>, err |-> m.err]
  ELSE [out |-> <<Lit("{")>> \o m.out \o <<Lit("}")>>, err |-> Nil]

\* Record.MarshalJSON: bytes and error
MarshalJSON(r, bad) ==
  IF ~IsValid(r) THEN [out |-> <<Lit("null")>>, err |-> Nil]
  ELSE MarshalDone(MarshalFields(r, 1, 0, bad))

\* Record.String with the options New's package starts with
RecordStringPlain(r, bad) == FormatString(r, FALSE, FALSE, bad)

\* Record.String: FormatString with the two package options
RecordString(r, bad) == FormatString(r, RecordStringColor, RecordStringMultiline, bad)

\* DB.Info
Info == <<db.prcode, db.dbtype>>

\* DB.Version: the ten characters of 20YY-MM-DD
Version ==
  <<50, 48, 48 + ((db.dbyear \div 10) % 10), 48 + (db.dbyear % 10), 45,
    48 + ((db.dbmonth \div 10) % 10), 48 + (db.dbmonth % 10), 45,
    48 + ((db.dbday \div 10) % 10), 48 + (db.dbday % 10)>>

RECURSIVE EachFieldOn(_, _)
\* the loop of DB.EachField without the return after fn returns false
EachFieldOn(f, stop) ==
  IF f >= dbFieldUpper THEN <<>>
  ELSE IF ~Has(f).v THEN EachFieldOn(f + 1, stop)
  ELSE <<f>> \o EachFieldOn(f + 1, stop)

RECURSIVE EachFieldFrom(_, _)
\* the loop of DB.EachField from field f on, with a callback that returns
\* false at its stop-th call from here (never if stop = 0): the fields the
\* callback was called with
EachFieldFrom(f, stop) ==
  IF f >= dbFieldUpper THEN <<>>
  ELSE IF ~Has(f).v THEN EachFieldFrom(f + 1, stop)
  ELSE IF stop = 1 THEN <<f>>
  ELSE <<f>> \o EachFieldFrom(f + 1, IF stop = 0 THEN 0 ELSE stop - 1)

\* DB.EachField(fn)
EachField(fn) == IF fn.nil THEN <<>> ELSE EachFieldFrom(1, fn.stop)

RECURSIVE DBStringFields(_, _)
\* the loop of DB.String over the fields, n names having been written
DBStringFields(f, n) ==
  IF f >= dbFieldUpper THEN <<>>
  ELSE IF ~Has(f).v THEN DBStringFields(f + 1, n)
  ELSE Opt(n # 0, ",") \o <<Tok("column", <<f>>)>> \o DBStringFields(f + 1, n + 1)

\* DB.String
DBString ==
  <<Tok("product", <<db.prcode>>), Lit(" "), Tok("type", <<db.prcode, db.dbtype>>), Lit(" "),
    Tok("version", Version), Lit(" "), Lit("[")>>
  \o DBStringFields(1, 0)
  \o <<Lit("]"), Lit(" "), Lit("("),
       Lit(IF db.ip4count # U32Zero /\ db.ip6count = U32Zero THEN "IPv4"
           ELSE IF db.ip4count = U32Zero /\ db.ip6count # U32Zero THEN "IPv6"
           ELSE "IPv4+IPv6"),
       Lit(")")>>

\* ------------------------------------------------------------------------
\* Database files and inputs
\* ------------------------------------------------------------------------

\* most rows an array of a generated database has
MaxRows == 3

\* IPFrom of consecutive rows are Stride apart: two rows per 16-bit prefix
Stride == Limb \div 2

\* where a generated file keeps its parts (byte offsets from 0)
Layout == [array |-> 64, idx4 |-> 4096, idx6 |-> 528384, str |-> 1052672, slot |-> 6]

\* little-endian bytes of a uint32, of a uint64 and of a uint128 as stored in a row
LE32(u) == <<u[2] % 256, u[2] \div 256, u[1] % 256, u[1] \div 256>>

LE64(x) == LE32(<<x[3], x[4]>>) \o LE32(<<x[1], x[2]>>)

\* the bytes b placed at offset off
Place(off, b) == [o \in off..(off + Len(b) - 1) |-> b[o - off + 1]]

RECURSIVE Concat(_)
Concat(ss) == IF ss = <<>> THEN <<>> ELSE Head(ss) \o Concat(Tail(ss))

\* k-th IPv6 address of the generated address line (k = 0 is ::)
V6(k) ==
  IF k = 0 THEN [hi |-> U64Zero, lo |-> U64Zero]
  ELSE [hi |-> <<9760, 0, 0, k \div 4>>, lo |-> <<(k % 4) * 16384, 0, 0, 0>>]

\* IPFrom of row i in the two arrays of file fx
IPFrom4(fx, i) == U32(fx.first + i * Stride)

IPFrom6(fx, i) == V6(fx.first \div 8 + i)

\* the length-prefixed strings the columns of row i point to: a country-code
\* string followed by a country-name string
Payload(i) ==
  CASE i % 4 = 0 -> <<2, 85, 83, 1, 65, 0>>       \* "US", "A"
    [] i % 4 = 1 -> <<2, 49, 50, 2, 45, 55>>      \* "12", "-7"
    [] i % 4 = 2 -> <<0, 0, 0, 0, 0, 0>>          \* "", ""
    [] OTHER     -> <<2, 49, 46, 1, 45, 0>>       \* "1.", "-"

\* the file length: the strings are the last thing in the file; a cut file
\* ends 2 bytes before the end of the strings of its last row but one, a
\* long file has 256 more bytes after the strings
FileLen(fx) ==
  CASE fx.len = "full" -> Layout.str + Layout.slot * fx.n
    [] fx.len = "cut" -> Layout.str + Layout.slot * (fx.n - 1) - 2
    [] fx.len = "long" -> Layout.str + Layout.slot * fx.n + 256
    [] fx.len = "header" -> 64
    [] OTHER -> 40

\* the 4 bytes of column k (k >= 2) of row i
ColBytes(fx, i, k) ==
  IF \E r \in ProductSchema(fx.p) : fx.t \in 1..Len(r.cols) /\ r.cols[fx.t] = k /\ r.ptr = 255
  THEN LE32(<<16256 + i, k>>)
  ELSE IF k = 2 THEN LE32(U32(Layout.str + Layout.slot * i))
  ELSE IF k = 3 THEN LE32(U32(Layout.str + Layout.slot * i + 3))
  ELSE LE32(U32(FileLen(fx)))

RowCols(fx, i) == Concat([k \in 1..(fx.c - 1) |-> ColBytes(fx, i, k + 1)])

Array4(fx) == Concat([i \in 1..fx.n |-> LE32(IPFrom4(fx, i - 1)) \o RowCols(fx, i - 1)])

Array6(fx) ==
  IF fx.v6 THEN Concat([i \in 1..fx.n |-> LE64(IPFrom6(fx, i - 1).lo) \o LE64(IPFrom6(fx, i - 1).hi) \o RowCols(fx, i - 1)])
  ELSE <<>>

Max(S) == CHOOSE x \in S : \A y \in S : y <= x

\* the index entry of a prefix: the rows that can hold an address between
\* low and high, the lowest and the highest address with the prefix
Entry4(fx, P) ==
  <<Max({0} \cup {i \in 0..(fx.n - 1) : ~LimbLess(<<P, 0>>, IPFrom4(fx, i))}),
    Max({0} \cup {i \in 0..(fx.n - 1) : ~LimbLess(<<P, Limb - 1>>, IPFrom4(fx, i))})>>

Entry6(fx, P) ==
  LET low == [hi |-> <<P, 0, 0, 0>>, lo |-> U64Zero]
      high == [hi |-> <<P, Limb - 1, Limb - 1, Limb - 1>>,
               lo |-> <<Limb - 1, Limb - 1, Limb - 1, Limb - 1>>]
  IN  <<Max({0} \cup {i \in 0..(fx.n - 1) : ~Less(low, IPFrom6(fx, i))}),
        Max({0} \cup {i \in 0..(fx.n - 1) : ~Less(high, IPFrom6(fx, i))})>>

\* the 16-bit prefixes whose index entries a generated file spells out
Prefixes4 == 0..((MaxRows + 2) \div 2)

Prefixes6 == {0, 9760}

EntryBytes(fx, e) ==
  IF fx.idx = "bad" THEN LE32(<<Limb - 1, Limb - 1>>) \o LE32(<<Limb - 1, Limb - 1>>)
  ELSE IF fx.idx = "loop" THEN LE32(U32(1)) \o LE32(<<Limb - 1, Limb - 1>>)
  ELSE LE32(U32(e[1])) \o LE32(U32(e[2]))

Index4(fx) ==
  IF fx.idx = "none" THEN <<>>
  ELSE [o \in UNION {(Layout.idx4 + 8 * P)..(Layout.idx4 + 8 * P + 7) : P \in Prefixes4} |->
          EntryBytes(fx, Entry4(fx, (o - Layout.idx4) \div 8))[((o - Layout.idx4) % 8) + 1]]

Index6(fx) ==
  IF fx.idx = "none" \/ ~fx.v6 THEN <<>>
  ELSE [o \in UNION {(Layout.idx6 + 8 * P)..(Layout.idx6 + 8 * P + 7) : P \in Prefixes6} |->
          EntryBytes(fx, Entry6(fx, (o - Layout.idx6) \div 8))[((o - Layout.idx6) % 8) + 1]]

\* the 64 header bytes of file fx
Header(fx) ==
  LET base6 == Layout.array + Len(Array4(fx)) IN
  <<fx.t, fx.c, fx.y, fx.m, fx.d>>
  \o LE32(U32(fx.n)) \o LE32(U32(Layout.array + 1))
  \o LE32(U32(IF fx.v6 THEN fx.n ELSE 0)) \o LE32(U32(IF fx.v6 THEN base6 + 1 ELSE 0))
  \o LE32(U32(IF fx.idx = "none" THEN 0 ELSE Layout.idx4 + 1))
  \o LE32(U32(IF fx.idx = "none" \/ ~fx.v6 THEN 0 ELSE Layout.idx6 + 1))
  \o <<fx.p, 0>> \o LE32(U32(FileLen(fx)))
  \o [k \in 1..29 |-> 0]

\* the bytes of file fx that are not zero filler; in a long file the length
\* byte of the first string of row 0 is 255
FileData(fx) ==
  LET all == (IF fx.len = "long" THEN Place(Layout.str, <<255>>) ELSE <<>>)
             @@ Place(0, Header(fx))
             @@ Place(Layout.array, Array4(fx) \o Array6(fx))
             @@ Index4(fx) @@ Index6(fx)
             @@ Place(Layout.str, Concat([i \in 1..fx.n |-> Payload(i - 1)]))
  IN  [o \in {x \in DOMAIN all : x < FileLen(fx)} |-> all[o]]

\* the schema parser has not been run
GenIdle == [pc |-> "idle"]

\* the command has not been started
CliIdle == [pc |-> "idle"]

\* package ip2location is not used
LocIdle == [pc |-> "idle"]

\* the (product, db-type, column count) triples of the generated files
Kinds ==
  {[p |-> IP2Location, t |-> 1, c |-> 2],
   [p |-> IP2Location, t |-> 5, c |-> 6],
   [p |-> IP2Proxy, t |-> 2, c |-> 3]}

\* a well-formed IP2Location DB1 file
BaseFx ==
  [p |-> IP2Location, t |-> 1, c |-> 2, y |-> 23, m |-> 5, d |-> 17,
   first |-> 0, n |-> 2, idx |-> "none", len |-> "full", v6 |-> TRUE, eof |-> FALSE]

\* the files opened: files New accepts, and files whose header New has to
\* look at twice
Files ==
  {[BaseFx EXCEPT !.p = k.p, !.t = k.t, !.c = k.c, !.first = first, !.n = n,
                  !.idx = idx, !.v6 = v6] :
     k \in Kinds, first \in {0, 8}, n \in 2..MaxRows, idx \in {"none", "good", "bad"},
     v6 \in BOOLEAN}
  \cup {[BaseFx EXCEPT !.p = k.p, !.t = k.t, !.c = k.c, !.n = n, !.len = "cut"] :
          k \in Kinds, n \in 2..MaxRows}
  \cup {[BaseFx EXCEPT !.p = k.p, !.t = k.t, !.c = k.c, !.len = "long"] : k \in Kinds}
  \cup {[BaseFx EXCEPT !.t = t, !.c = c, !.y = y, !.m = m, !.d = d, !.p = p, !.len = len] :
     t \in {0, 1, 26, 80}, c \in {2, 3, 75}, y \in {20, 21}, m \in {0, 12, 13},
     d \in {0, 31, 32}, p \in {0, 1, 2, 3}, len \in {"full", "short"}}
  \cup {[BaseFx EXCEPT !.len = "header", !.eof = eof] : eof \in BOOLEAN}
  \* an index whose entries are lower = 1, upper = 0xFFFFFFFF
  \cup {[BaseFx EXCEPT !.idx = "loop"]}

\* the IPv4 addresses looked up, as uint32
V4Sample ==
  {U32(k * Stride + e) : k \in 0..MaxRows, e \in {0, 7, 8, Stride - 1}}

\* the IPv4 address b written as a netip.Addr: natively, IPv4-mapped, as a
\* 6to4 address, as a Teredo address, or as a Teredo address with other
\* server and port bits
AddrOf(form, b) ==
  CASE form = "native" -> [z |-> "z4", hi |-> U64Zero, lo |-> <<0, 65535, b[1], b[2]>>]
    [] form = "mapped" -> [z |-> "z6", hi |-> U64Zero, lo |-> <<0, 65535, b[1], b[2]>>]
    [] form = "6to4" -> [z |-> "z6", hi |-> <<8194, b[1], b[2], 0>>, lo |-> U64Zero]
    [] form = "teredo" ->
         [z |-> "z6", hi |-> <<8193, 0, 0, 0>>,
          lo |-> <<Limb - 1, Limb - 1, (Limb - 1) - b[1], (Limb - 1) - b[2]>>]
    [] form = "teredo2" ->
         [z |-> "z6", hi |-> <<8193, 0, 1, 2>>,
          lo |-> <<3, 4, (Limb - 1) - b[1], (Limb - 1) - b[2]>>]

FormsOf(b) == {AddrOf(form, b) : form \in {"native", "mapped", "6to4", "teredo", "teredo2"}}

\* the last address before the k-th address of the IPv6 address line (k > 0)
V6Pred(k) ==
  IF k = 1 THEN [hi |-> <<9759, Limb - 1, Limb - 1, Limb - 1>>,
                 lo |-> <<Limb - 1, Limb - 1, Limb - 1, Limb - 1>>]
  ELSE IF k % 4 = 0
    THEN [hi |-> <<9760, 0, 0, (k \div 4) - 1>>,
          lo |-> <<Limb - 1, Limb - 1, Limb - 1, Limb - 1>>]
  ELSE [hi |-> <<9760, 0, 0, k \div 4>>,
        lo |-> <<(k % 4) * 16384 - 1, Limb - 1, Limb - 1, Limb - 1>>]

V6Addr(u) == [z |-> "z6", hi |-> u.hi, lo |-> u.lo]

V6Sample ==
  {V6Addr(V6(k)) : k \in 0..(MaxRows + 1)}
  \cup {V6Addr(V6Pred(k)) : k \in 1..(MaxRows + 1)}
  \cup {V6Addr([hi |-> U64Zero, lo |-> <<0, 0, 0, 5>>])}
  \* 2001:db8::5, ::fffe:0.0.0.8, 0:0:0:1:0:ffff:0:8 and a 6to4 address of
  \* 0.0.0.8 with other low bits
  \cup {V6Addr([hi |-> <<8193, 3512, 0, 0>>, lo |-> <<0, 0, 0, 5>>]),
        V6Addr([hi |-> U64Zero, lo |-> <<0, 65534, 0, 8>>]),
        V6Addr([hi |-> <<0, 0, 0, 1>>, lo |-> <<0, 65535, 0, 8>>]),
        V6Addr([hi |-> <<8194, 0, 8, 77>>, lo |-> <<1, 2, 3, 4>>])}

Addrs == {ZeroAddr} \cup UNION {FormsOf(b) : b \in V4Sample} \cup V6Sample

\* netip.ParseAddr on the strings handed to LookupString
ParseAddr(s) ==
  CASE s = "0.0.0.8" -> AddrOf("native", U32(8))
    [] s = "::ffff:0.0.0.8" -> AddrOf("mapped", U32(8))
    [] s = "2002:0:8::" -> AddrOf("6to4", U32(8))
    [] s = "::5" -> V6Addr([hi |-> U64Zero, lo |-> <<0, 0, 0, 5>>])
    [] OTHER -> ZeroAddr

Strings == {"0.0.0.8", "::ffff:0.0.0.8", "2002:0:8::", "::5", "", "0.0.0.256", "example.com"}

\* the field arguments handed to Has and to the getters
FieldSample ==
  {-1, 0, CountryCode, CountryName, ISP, Latitude, Longitude, ProxyType, Region, City,
   dbFieldUpper - 1, dbFieldUpper}

Queries == {1}

NoLast == [set |-> FALSE, base |-> U32Zero, rec |-> ZeroRecord, err |-> Nil]

\* the state before New: a file of the sample behind the reader, the given
\* queries idle, the package options at their initial values
InitFrom(files, queries) ==
  /\ \E fx \in files :
       reader = [data |-> FileData(fx), len |-> FileLen(fx), eofAtEnd |-> fx.eof]
  /\ db = ZeroDB
  /\ openErr = "pending"
  /\ qs = [q \in queries |-> IdleQuery]
  /\ last = NoLast
  /\ ioFailed = FALSE
  /\ RecordStringColor = FALSE
  /\ RecordStringMultiline = FALSE
  /\ gen = GenIdle
  /\ cli = CliIdle
  /\ ip2location = LocIdle

Init == InitFrom(Files, Queries)

\* db, err := New(r)
Open ==
  /\ openErr = "pending"
  /\ \E rd \in ReadOutcomes(64, U32Zero) :
       /\ db' = NewResult(rd).db
       /\ openErr' = NewResult(rd).err
  /\ UNCHANGED <<reader, qs, last, ioFailed, others>>

\* a is one of the ways to write the IPv4 address last.base
SameBase(a) == last.set /\ a \in FormsOf(last.base)

\* the comparison record after query state s was produced for input a
Remember(s, keep) ==
  IF s.pc = "done" /\ s.a.z = "z4" /\ ~s.faulted
  THEN [set |-> TRUE, base |-> <<s.a.lo[3], s.a.lo[4]>>, rec |-> s.rec, err |-> s.err]
  ELSE IF keep THEN last ELSE NoLast

\* Lookup on a handle that remembers a failed read: it is refused
LookupFromDead(q, sample) ==
  /\ openErr = Nil
  /\ qs[q].pc = "idle"
  /\ \E a \in sample :
       LET s == IF ioFailed THEN Return([IdleQuery EXCEPT !.a = a], ZeroRecord, "EIO")
                ELSE LookupEnter(qs[q], a) IN
         /\ qs' = [qs EXCEPT ![q] = s]
         /\ last' = Remember(s, SameBase(a))
         /\ ioFailed' = (ioFailed \/ (s.pc = "done" /\ s.err # Nil))
  /\ UNCHANGED <<reader, db, openErr, others>>

\* r, err := db.Lookup(a), up to its first positional read
LookupFrom(q, sample) ==
  /\ openErr = Nil
  /\ qs[q].pc = "idle"
  /\ \E a \in sample :
       LET s == LookupEnter(qs[q], a) IN
         /\ qs' = [qs EXCEPT ![q] = s]
         /\ last' = Remember(s, SameBase(a))
         /\ ioFailed' = (ioFailed \/ (s.pc = "done" /\ s.err # Nil))
  /\ UNCHANGED <<reader, db, openErr, others>>

\* a caller looks up one of the sampled addresses
LookupStart(q) == LookupFrom(q, Addrs)

\* r, err := db.LookupString(ip), up to its first positional read
LookupStringStart(q) ==
  /\ openErr = Nil
  /\ qs[q].pc = "idle"
  /\ \E str \in Strings :
       LET s == [LookupEnter(qs[q], ParseAddr(str)) EXCEPT !.str = str] IN
         /\ qs' = [qs EXCEPT ![q] = s]
         /\ last' = Remember(s, SameBase(ParseAddr(str)))
         /\ ioFailed' = (ioFailed \/ (s.pc = "done" /\ s.err # Nil))
  /\ UNCHANGED <<reader, db, openErr, others>>

\* the read of the index entry returns, and the window it gives is kept in
\* the handle as the row count
IndexReadCaching(q) ==
  /\ qs[q].pc = "index"
  /\ \E rd \in ReadOutcomes(8, qs[q].off) :
       LET s == IndexProbe(qs[q], rd) IN
         /\ qs' = [qs EXCEPT ![q] = s]
         /\ last' = Remember(s, TRUE)
         /\ ioFailed' = (ioFailed \/ (s.pc = "done" /\ s.err # Nil))
         /\ db' = [db EXCEPT !.ip4count = s.upper]
  /\ UNCHANGED <<reader, openErr, others>>

\* the read of the index entry returns
IndexRead(q) ==
  /\ qs[q].pc = "index"
  /\ \E rd \in ReadOutcomes(8, qs[q].off) :
       LET s == IndexProbe(qs[q], rd) IN
         /\ qs' = [qs EXCEPT ![q] = s]
         /\ last' = Remember(s, TRUE)
         /\ ioFailed' = (ioFailed \/ (s.pc = "done" /\ s.err # Nil))
  /\ UNCHANGED <<reader, db, openErr, others>>

\* the reads of one Lookup that are followed
MaxReads == 40

\* the read of row mid of query q returns into a row buffer that the
\* queries share: what q decodes is the row another query has just read
RowReadShared(q) ==
  /\ qs[q].pc = "search"
  /\ qs[q].nreads < MaxReads
  /\ \E o \in DOMAIN qs :
       /\ qs[o].pc = "search"
       /\ \E rd \in ReadOutcomes(RowLen(qs[q]), RowOff(qs[o])) :
            LET s == SearchIter(qs[q], rd) IN
              /\ qs' = [qs EXCEPT ![q] = s]
              /\ last' = Remember(s, TRUE)
              /\ ioFailed' = (ioFailed \/ (s.pc = "done" /\ s.err # Nil))
  /\ UNCHANGED <<reader, db, openErr, others>>

\* the read of row mid returns
RowRead(q) ==
  /\ qs[q].pc = "search"
  /\ qs[q].nreads < MaxReads
  /\ \E rd \in ReadOutcomes(RowLen(qs[q]), RowOff(qs[q])) :
       LET s == SearchIter(qs[q], rd) IN
         /\ qs' = [qs EXCEPT ![q] = s]
         /\ last' = Remember(s, TRUE)
         /\ ioFailed' = (ioFailed \/ (s.pc = "done" /\ s.err # Nil))
  /\ UNCHANGED <<reader, db, openErr, others>>

\* the caller takes the Record; Lookup's frame is gone
Release(q) ==
  /\ qs[q].pc = "done"
  /\ qs' = [qs EXCEPT ![q] = [IdleQuery EXCEPT !.rec = qs[q].rec]]
  /\ UNCHANGED <<reader, db, openErr, last, ioFailed, others>>

\* sets of fields whose payload read the source fails during one formatting call
FaultSets == {{}, {CountryCode}, {CountryName}}

\* one call on the caller's record returns out
Called(q, out) ==
  /\ qs' = [qs EXCEPT ![q] = [IdleQuery EXCEPT !.pc = "called", !.rec = qs[q].rec,
                                                !.out = out]]
  /\ last' = NoLast
  /\ UNCHANGED <<reader, db, openErr, ioFailed, others>>

\* the caller can make a call: the handle is open and no Lookup is under way
CanCall(q) == openErr = Nil /\ qs[q].pc = "idle"

CallIsValid(q) ==
  /\ CanCall(q)
  /\ Called(q, [op |-> "IsValid", res |-> IsValid(qs[q].rec)])

CallHas(q) ==
  /\ CanCall(q)
  /\ \E f \in FieldSample : Called(q, [op |-> "Has", f |-> f, res |-> Has(f)])

CallGet(q) ==
  /\ CanCall(q)
  /\ \E f \in FieldSample, fault \in BOOLEAN :
       Called(q, [op |-> "Get", f |-> f, fault |-> fault, res |-> Get(qs[q].rec, f, fault)])

CallGetString(q) ==
  /\ CanCall(q)
  /\ \E f \in FieldSample, fault \in BOOLEAN :
       Called(q, [op |-> "GetString", f |-> f, fault |-> fault,
                  res |-> GetString(qs[q].rec, f, fault)])

CallGetFloat32(q) ==
  /\ CanCall(q)
  /\ \E f \in FieldSample, fault \in BOOLEAN :
       Called(q, [op |-> "GetFloat32", f |-> f, fault |-> fault,
                  res |-> GetFloat32(qs[q].rec, f, fault)])

CallFormatString(q) ==
  /\ CanCall(q)
  /\ \E color \in BOOLEAN, multiline \in BOOLEAN, bad \in FaultSets :
       Called(q, [op |-> "FormatString", color |-> color, multiline |-> multiline,
                  bad |-> bad, res |-> FormatString(qs[q].rec, color, multiline, bad)])

CallMarshalJSON(q) ==
  /\ CanCall(q)
  /\ \E bad \in FaultSets :
       Called(q, [op |-> "MarshalJSON", bad |-> bad, res |-> MarshalJSON(qs[q].rec, bad)])

CallRecordString(q) ==
  /\ CanCall(q)
  /\ \E bad \in FaultSets :
       Called(q, [op |-> "String", bad |-> bad, res |-> RecordString(qs[q].rec, bad)])

CallInfo(q) ==
  /\ CanCall(q)
  /\ Called(q, [op |-> "Info", res |-> Info])

CallVersion(q) ==
  /\ CanCall(q)
  /\ Called(q, [op |-> "Version", res |-> Version])

CallDBString(q) ==
  /\ CanCall(q)
  /\ Called(q, [op |-> "DB.String", res |-> DBString])

CallEachField(q) ==
  /\ CanCall(q)
  /\ \E fn \in {[nil |-> TRUE, stop |-> 0]} \cup {[nil |-> FALSE, stop |-> k] : k \in 0..2} :
       Called(q, [op |-> "EachField", fn |-> fn, res |-> EachField(fn)])

\* the caller is done with the result of the call
Discard(q) ==
  /\ qs[q].pc = "called"
  /\ qs' = [qs EXCEPT ![q] = [IdleQuery EXCEPT !.rec = qs[q].rec]]
  /\ UNCHANGED <<reader, db, openErr, last, ioFailed, others>>

Next ==
  \/ Open
  \/ \E q \in Queries : LookupStart(q)
  \/ \E q \in Queries : LookupStringStart(q)
  \/ \E q \in Queries : IndexRead(q)
  \/ \E q \in Queries : RowRead(q)
  \/ \E q \in Queries : Release(q)
  \/ \E q \in Queries : CallIsValid(q)
  \/ \E q \in Queries : CallHas(q)
  \/ \E q \in Queries : CallGet(q)
  \/ \E q \in Queries : CallGetString(q)
  \/ \E q \in Queries : CallGetFloat32(q)
  \/ \E q \in Queries : CallFormatString(q)
  \/ \E q \in Queries : CallMarshalJSON(q)
  \/ \E q \in Queries : CallRecordString(q)
  \/ \E q \in Queries : CallInfo(q)
  \/ \E q \in Queries : CallVersion(q)
  \/ \E q \in Queries : CallDBString(q)
  \/ \E q \in Queries : CallEachField(q)
  \/ \E q \in Queries : Discard(q)

Spec == Init /\ [][Next]_vars

\* ------------------------------------------------------------------------
\* Queries running concurrently on one shared handle
\* ------------------------------------------------------------------------

RECURSIVE RunAlone(_)
\* Lookup run from s to its return with no other query in between, every
\* read answered by the file
RunAlone(s) ==
  IF s.pc = "index" THEN RunAlone(IndexProbe(s, ReadAt(8, s.off)))
  ELSE IF s.pc = "search" THEN RunAlone(SearchIter(s, ReadAt(RowLen(s), RowOff(s))))
  ELSE s

\* the files shared by two queries: DB5 files with and without an index
SharedFiles ==
  {[BaseFx EXCEPT !.t = 5, !.c = 6, !.n = MaxRows, !.idx = idx] : idx \in {"none", "good"}}

\* the addresses the two queries look up: one in each row, natively and as
\* a Teredo address, and an IPv6 address
SharedAddrs ==
  {AddrOf(form, U32(k * Stride + 8)) : k \in 0..(MaxRows - 1), form \in {"native", "teredo"}}
  \cup {V6Addr(V6(1))}

InitShared == InitFrom(SharedFiles, 1..2)

\* two goroutines look addresses up and read fields through the one handle
NextShared ==
  \/ Open
  \/ \E q \in 1..2 : LookupFrom(q, SharedAddrs)
  \/ \E q \in 1..2 : IndexRead(q)
  \/ \E q \in 1..2 : RowRead(q)
  \/ \E q \in 1..2 : Release(q)
  \/ \E q \in 1..2 : CallGetString(q)
  \/ \E q \in 1..2 : Discard(q)

SpecShared == InitShared /\ [][NextShared]_vars

\* ------------------------------------------------------------------------
\* Callers that change the package options of Record.String
\* ------------------------------------------------------------------------

\* a caller assigns ip2x.RecordStringColor
SetRecordStringColor ==
  /\ RecordStringColor' = ~RecordStringColor
  /\ UNCHANGED <<reader, db, openErr, qs, last, ioFailed, RecordStringMultiline, gen, cli, ip2location>>

\* a caller assigns ip2x.RecordStringMultiline
SetRecordStringMultiline ==
  /\ RecordStringMultiline' = ~RecordStringMultiline
  /\ UNCHANGED <<reader, db, openErr, qs, last, ioFailed, RecordStringColor, gen, cli, ip2location>>

InitOptions == InitFrom(SharedFiles, Queries)

\* one caller looks addresses up and formats the records while the options
\* are assigned
NextOptions ==
  \/ Open
  \/ \E q \in Queries : LookupFrom(q, SharedAddrs)
  \/ \E q \in Queries : IndexRead(q)
  \/ \E q \in Queries : RowRead(q)
  \/ \E q \in Queries : Release(q)
  \/ \E q \in Queries : CallRecordString(q)
  \/ \E q \in Queries : CallFormatString(q)
  \/ \E q \in Queries : CallMarshalJSON(q)
  \/ \E q \in Queries : Discard(q)
  \/ SetRecordStringColor
  \/ SetRecordStringMultiline

SpecOptions == InitOptions /\ [][NextOptions]_vars

\* ------------------------------------------------------------------------
\* The schema parser of the code generator
\* ------------------------------------------------------------------------

\* the most column lines of a product in the sampled schemas
MaxColumns == 2

\* the word "." of a column line, a column type without "@offset", and a
\* number that is refused
Dot == 0 - 1

\* col.Pointer of a column type: 0xFF when there is no @offset, an error when
\* the offset does not fit below 0xFF
ColumnPointer(at) ==
  IF at = Dot THEN 255 ELSE IF at > 255 - 1 THEN Dot ELSE at

\* col.DatabaseColumn[i] of one word of a column line; Dot for a number
\* that is refused
ColumnNumber(w) ==
  IF w = Dot THEN 0 ELSE IF w < 2 \/ w > 255 THEN Dot ELSE w

\* one line of a product of DatabaseTypeMax types turned into a
\* specProductColumn, or the error: a refused offset or number, a word
\* missing for a type, or words left over
ParseColumn(line, DatabaseTypeMax) ==
  IF ColumnPointer(line.at) = Dot
     \/ Len(line.num) # DatabaseTypeMax
     \/ \E i \in DOMAIN line.num : ColumnNumber(line.num[i]) = Dot
  THEN [err |-> "error"]
  ELSE [err |-> Nil, Type |-> line.type, Pointer |-> ColumnPointer(line.at),
        DatabaseColumn |-> [i \in DOMAIN line.num |-> ColumnNumber(line.num[i])]]

\* the key of colptrused: uint16(c)<<8 | pointer
PtrKey(c, pointer) == (c * 256 + pointer) % 65536

RECURSIVE ColumnUses(_, _, _, _, _)
\* the loop over prod.ProductColumn for one dbtype, from column line n on:
\* colidx is the set of indices of the array that are not nil, colptrused
\* the set of keys of the map
ColumnUses(cols, dbtype, n, colidx, colptrused) ==
  IF n > Len(cols) THEN [err |-> Nil, colidx |-> colidx]
  ELSE
    LET col == cols[n]
        c == col.DatabaseColumn[dbtype]
    IN IF c = 0 THEN ColumnUses(cols, dbtype, n + 1, colidx, colptrused)
       ELSE IF col.Pointer = 255
                 /\ \/ \E p \in 0..254 : PtrKey(c, p) \in colptrused
                    \/ PtrKey(c, 255) \in colptrused
            THEN [err |-> "error", colidx |-> colidx]
       ELSE IF col.Pointer # 255
                 /\ \/ PtrKey(c, 255) \in colptrused
                    \/ PtrKey(c, col.Pointer) \in colptrused
            THEN [err |-> "error", colidx |-> colidx]
       \* colidx is an array of 0xFF entries: index 255 is out of range
       ELSE IF c >= 255 THEN [err |-> "panic", colidx |-> colidx]
       ELSE ColumnUses(cols, dbtype, n + 1, colidx \cup {c},
                       colptrused \cup {PtrKey(c, col.Pointer)})

\* the loop for i := uint8(2); i < 0xFF; i++ over colidx: it returns at the
\* first mapped column i that follows an unmapped one, with end one less than
\* the last unmapped column before i; the message of the second error reads
\* colidx[end].Field, which is a nil pointer when column end is not mapped
ColumnGaps(colidx) ==
  LET after == {i \in colidx : i < 255 /\ \E j \in 2..(i - 1) : j \notin colidx}
  IN IF after = {} THEN Nil
     ELSE LET i == CHOOSE x \in after : \A y \in after : x <= y
              unmapped == {j \in 2..(i - 1) : j \notin colidx}
              end == (CHOOSE x \in unmapped : \A y \in unmapped : y <= x) - 1
          IN IF end = 1 THEN "error"
             ELSE IF end \in colidx THEN "error"
             ELSE "panic"

RECURSIVE CheckTypes(_, _, _)
\* the loop for dbtype := uint8(1); dbtype <= prod.DatabaseTypeMax; dbtype++
CheckTypes(cols, dbtype, DatabaseTypeMax) ==
  IF dbtype > DatabaseTypeMax THEN Nil
  ELSE LET u == ColumnUses(cols, dbtype, 1, {}, {})
       IN IF u.err # Nil THEN u.err
          ELSE IF ColumnGaps(u.colidx) # Nil THEN ColumnGaps(u.colidx)
          ELSE CheckTypes(cols, dbtype + 1, DatabaseTypeMax)

\* parseProduct on a product of schema.types database types whose column
\* lines are schema.lines, each naming another field
parseProduct(schema) ==
  LET cols == [n \in DOMAIN schema.lines |-> ParseColumn(schema.lines[n], schema.types)]
  IN IF \E n \in DOMAIN cols : cols[n].err # Nil
     THEN [err |-> "error", cols |-> <<>>]
     ELSE [err |-> CheckTypes(cols, 1, schema.types),
           cols |-> IF CheckTypes(cols, 1, schema.types) = Nil THEN cols ELSE <<>>]

\* the descriptors written into _dbfd for the product
genDescriptors(cols, types) ==
  {[column |-> cols[p[1]].DatabaseColumn[p[2]], ptr |-> cols[p[1]].Pointer,
    type |-> IF cols[p[1]].Type = "str" THEN dbft_string ELSE dbft_f32le] :
     p \in {q \in (DOMAIN cols) \X (1..types) : cols[q[1]].DatabaseColumn[q[2]] # 0}}

\* the product code of the product of the sampled schemas, which is
\* dbProductMax of the generated package
ProductCode == 1

\* the entries the generator writes under [prod][t] of _dbfd: the descriptor
\* of every column line with a column for t, under the number of its field
\* (the entries it does not write are dbfd(0)), and under dbFieldColumns the
\* count n of the lines written
genTable(cols, t) ==
  [fd |-> [f \in DOMAIN cols |->
             IF cols[f].DatabaseColumn[t] = 0 THEN dbfdZero
             ELSE [valid |-> TRUE, column |-> cols[f].DatabaseColumn[t],
                   ptroffset |-> cols[f].Pointer,
                   type |-> IF cols[f].Type = "str" THEN dbft_string ELSE dbft_f32le]],
   dbFieldColumns |-> Cardinality({f \in DOMAIN cols : cols[f].DatabaseColumn[t] # 0})]

\* the generated getdbfd on the table of g
getdbfd(g, p, t, f) ==
  IF p > g.dbProductMax \/ t > g.dbTypeMax \/ f > g.dbFieldMax THEN dbfdZero
  ELSE IF p # g.dbProductMax \/ t = 0 \/ f = 0 THEN dbfdZero
  ELSE g.dbfd[t].fd[f]

\* the generated getdbcols on the table of g
getdbcols(g, p, t) ==
  IF p > g.dbProductMax \/ t >= g.dbTypeMax THEN 0
  ELSE IF p # g.dbProductMax \/ t = 0 THEN 0
  ELSE g.dbfd[t].dbFieldColumns % 256

RECURSIVE parseColumns(_, _, _, _)
\* the older format: the column lines of one database variant from line n
\* on, Column the columns appended so far, DataColumns the uint8 counter
parseColumns(lines, n, Column, DataColumns) ==
  IF n > Len(lines) THEN [err |-> Nil, cols |-> Column]
  ELSE
    LET line == lines[n]
        IsPointer == line.qual # "="
        IsPointerRel == line.qual = "rel"
        count == IF (IsPointer /\ ~IsPointerRel) \/ (~IsPointer /\ line.type = "f32")
                 THEN (DataColumns + 1) % 256 ELSE DataColumns
    IN IF line.type \notin {"str", "f32"} \/ line.qual \notin {"=", "*", "rel"}
       THEN [err |-> "error", cols |-> <<>>]
       ELSE IF IsPointerRel /\ (Len(Column) = 0 \/ ~Column[Len(Column)].IsPointer
                                \/ line.rel > 127 \/ line.rel >= 255)
       THEN [err |-> "error", cols |-> <<>>]
       \* dynamic string must be a pointer
       ELSE IF ~IsPointer /\ line.type = "str" THEN [err |-> "error", cols |-> <<>>]
       ELSE IF count = 0 THEN [err |-> "error", cols |-> <<>>]
       ELSE parseColumns(lines, n + 1,
              Append(Column, [Column |-> count, Type |-> line.type, IsPointer |-> IsPointer,
                              RelOffset |-> IF IsPointerRel THEN line.rel ELSE 0]),
              count)

\* the descriptors the older generator writes for the columns of a variant
genColumns(cols) ==
  {[column |-> cols[n].Column, ptr |-> IF cols[n].IsPointer THEN cols[n].RelOffset ELSE 255,
    type |-> IF cols[n].Type = "str" THEN dbft_string ELSE dbft_f32le] : n \in DOMAIN cols}

\* sequences of at most MaxColumns elements of S
UpTo(S) == UNION {[1..n -> S] : n \in 0..MaxColumns}

\* the column lines of the sampled products: an inline f32, an inline str
\* and pointers at offsets 0 and 3, on absent, adjacent, gapped and last
\* column numbers
ColumnLines(types) ==
  {[type |-> k[1], at |-> k[2], num |-> num] :
     k \in {<<"f32", Dot>>, <<"str", Dot>>, <<"str", 0>>, <<"str", 3>>},
     num \in {w \in [1..types -> {Dot, 2, 3, 5, 255}] :
                \A t \in 2..types : w[t] \in {Dot, 2}}}

\* products of one and two database types in the current format, with a
\* word for each type on every column line or one word only
Products ==
  {[format |-> "product", types |-> types, lines |-> lines] :
     types \in 1..2, lines \in UpTo(ColumnLines(1))}
  \cup {[format |-> "product", types |-> 2, lines |-> lines] : lines \in UpTo(ColumnLines(2))}

\* database variants in the older format
Variants ==
  {[format |-> "variant", types |-> 1, lines |-> lines] :
     lines \in UpTo({[type |-> t, qual |-> q[1], rel |-> q[2]] :
                       t \in {"str", "f32"}, q \in {<<"=", 0>>, <<"*", 0>>, <<"rel", 3>>}})}

InitCodegen ==
  /\ reader = [data |-> FileData(BaseFx), len |-> FileLen(BaseFx), eofAtEnd |-> BaseFx.eof]
  /\ db = ZeroDB
  /\ openErr = "pending"
  /\ qs = [q \in Queries |-> IdleQuery]
  /\ last = NoLast
  /\ ioFailed = FALSE
  /\ RecordStringColor = FALSE
  /\ RecordStringMultiline = FALSE
  /\ \E schema \in Products \cup Variants : gen = [pc |-> "schema", schema |-> schema]
  /\ cli = CliIdle
  /\ ip2location = LocIdle

\* the generator parses a product of the current format
ParseProduct ==
  /\ gen.pc = "schema"
  /\ gen.schema.format = "product"
  /\ gen' = [pc |-> "parsed", schema |-> gen.schema,
             err |-> parseProduct(gen.schema).err, cols |-> parseProduct(gen.schema).cols]
  /\ UNCHANGED <<reader, db, openErr, qs, last, ioFailed, RecordStringColor, RecordStringMultiline, cli, ip2location>>

\* the older generator parses a database variant
ParseVariant ==
  /\ gen.pc = "schema"
  /\ gen.schema.format = "variant"
  /\ gen' = [pc |-> "parsed", schema |-> gen.schema,
             err |-> parseColumns(gen.schema.lines, 1, <<>>, 1).err,
             cols |-> parseColumns(gen.schema.lines, 1, <<>>, 1).cols]
  /\ UNCHANGED <<reader, db, openErr, qs, last, ioFailed, RecordStringColor, RecordStringMultiline, cli, ip2location>>

\* the generator writes the descriptor table of what was parsed
Generate ==
  /\ gen.pc = "parsed"
  /\ gen.err = Nil
  /\ gen' = IF gen.schema.format = "product"
            THEN [pc |-> "generated", schema |-> gen.schema, err |-> Nil, cols |-> gen.cols,
                  descs |-> genDescriptors(gen.cols, gen.schema.types),
                  dbProductMax |-> ProductCode,
                  dbTypeMax |-> gen.schema.types,
                  dbFieldMax |-> Len(gen.cols),
                  dbfd |-> [t \in 1..gen.schema.types |-> genTable(gen.cols, t)]]
            ELSE [pc |-> "generated", schema |-> gen.schema, err |-> Nil, cols |-> gen.cols,
                  descs |-> genColumns(gen.cols)]
  /\ UNCHANGED <<reader, db, openErr, qs, last, ioFailed, RecordStringColor, RecordStringMultiline, cli, ip2location>>

NextCodegen == ParseProduct \/ ParseVariant \/ Generate

SpecCodegen == InitCodegen /\ [][NextCodegen]_vars

\* ------------------------------------------------------------------------
\* The command ip2x
\* ------------------------------------------------------------------------

\* the most arguments after the command's name in the sampled command lines
MaxArgs == 3

\* opts before the flags are parsed
NoOpts == [JSON |-> FALSE, Compact |-> FALSE, Strict |-> FALSE]

RECURSIVE FlagParse(_, _, _)
\* f.Parse(argv[i:]), argv indexed from 0 as in the code: the flags are
\* taken up to the first argument that is not one, or to "--"; first is the
\* index of f.Arg(0), len(argv) when no argument is left
FlagParse(argv, i, o) ==
  IF i >= Len(argv) THEN [err |-> Nil, opts |-> o, first |-> Len(argv)]
  ELSE IF argv[i + 1] = "--" THEN [err |-> Nil, opts |-> o, first |-> i + 1]
  ELSE IF argv[i + 1] = "-json" THEN FlagParse(argv, i + 1, [o EXCEPT !.JSON = TRUE])
  ELSE IF argv[i + 1] = "-compact" THEN FlagParse(argv, i + 1, [o EXCEPT !.Compact = TRUE])
  ELSE IF argv[i + 1] = "-strict" THEN FlagParse(argv, i + 1, [o EXCEPT !.Strict = TRUE])
  ELSE IF argv[i + 1] = "-x" THEN [err |-> "flag provided but not defined", opts |-> o, first |-> i]
  ELSE [err |-> Nil, opts |-> o, first |-> i]

RECURSIVE pparseLoop(_, _, _, _)
\* the loop of pparse: i is one more than first, the index of f.Arg(0)
pparseLoop(argv, args, first, o) ==
  LET i == first + 1 IN
    IF ~(i < Len(argv)) \/ (i > 1 /\ argv[(i - 2) + 1] = "--")
    THEN [err |-> Nil, opts |-> o, args |-> args \o SubSeq(argv, first + 1, Len(argv))]
    ELSE LET p == FlagParse(argv, i, o)
         IN IF p.err # Nil THEN [err |-> p.err, opts |-> p.opts, args |-> args \o <<argv[first + 1]>>]
            ELSE pparseLoop(argv, args \o <<argv[first + 1]>>, p.first, p.opts)

\* pparse(flag.CommandLine, os.Args)
pparse(argv) ==
  LET p == FlagParse(argv, 1, NoOpts)
  IN IF p.err # Nil THEN [err |-> p.err, opts |-> p.opts, args |-> <<>>]
     ELSE pparseLoop(argv, <<>>, p.first, p.opts)

\* the command has returned to the shell
Exited(code, out) == [pc |-> "exited", argv |-> cli.argv, code |-> code, out |-> out]

\* main up to the call of lookup
CliMain ==
  /\ cli.pc = "start"
  /\ LET p == pparse(cli.argv) IN
       IF p.err # Nil \/ Len(p.args) <= 1
       THEN /\ cli' = Exited(2, <<>>)
            /\ UNCHANGED <<RecordStringColor, RecordStringMultiline>>
       ELSE /\ cli' = [pc |-> "open", argv |-> cli.argv, args |-> p.args, opts |-> p.opts]
            /\ RecordStringColor' = (IF p.opts.JSON THEN RecordStringColor ELSE TRUE)
            /\ RecordStringMultiline' = (IF p.opts.JSON THEN RecordStringMultiline ELSE ~p.opts.Compact)
  /\ UNCHANGED <<reader, db, openErr, qs, last, ioFailed, gen, ip2location>>

\* lookup: os.Open(args[0]) and ip2x.New(f); "db" is the path of the
\* database file
CliOpen ==
  /\ cli.pc = "open"
  /\ IF cli.args[1] # "db"
     THEN /\ cli' = Exited(1, <<>>)
          /\ UNCHANGED <<db, openErr>>
     ELSE /\ db' = NewResult(ReadAt(64, U32Zero)).db
          /\ openErr' = NewResult(ReadAt(64, U32Zero)).err
          /\ cli' = IF NewResult(ReadAt(64, U32Zero)).err # Nil THEN Exited(1, <<>>)
                    ELSE [pc |-> "lookup", argv |-> cli.argv, args |-> cli.args,
                          opts |-> cli.opts, k |-> 2, out |-> <<>>]
  /\ UNCHANGED <<reader, qs, last, ioFailed, RecordStringColor, RecordStringMultiline, gen, ip2location>>

\* lookup after New: the information line when args holds the path alone,
\* else the next address of args[1:]; enc.Encode writes nothing when
\* MarshalJSON fails
CliLookup ==
  /\ cli.pc = "lookup"
  /\ IF Len(cli.args) = 1
     THEN cli' = Exited(0, <<[json |-> cli.opts.JSON, v |-> DBString]>>)
     ELSE IF cli.k > Len(cli.args) THEN cli' = Exited(0, cli.out)
     ELSE LET s == RunAlone(LookupEnter(IdleQuery, ParseAddr(cli.args[cli.k])))
          IN IF s.err # Nil THEN cli' = Exited(1, cli.out)
             ELSE IF IsValid(s.rec)
             THEN cli' = [cli EXCEPT !.k = cli.k + 1,
                            !.out = Append(cli.out,
                                      IF cli.opts.JSON
                                      THEN [json |-> TRUE, v |-> MarshalJSON(s.rec, {}).out]
                                      ELSE [json |-> FALSE, v |-> RecordString(s.rec, {})])]
             ELSE IF cli.opts.Strict THEN cli' = Exited(1, cli.out)
             ELSE cli' = [cli EXCEPT !.k = cli.k + 1]
  /\ UNCHANGED <<reader, db, openErr, qs, last, ioFailed, RecordStringColor, RecordStringMultiline, gen, ip2location>>

\* the words of the sampled command lines
ArgSample ==
  {"-json", "-compact", "-strict", "--", "-x", "db", "nofile", "0.0.0.8", "::5", "example.com"}

InitCli ==
  /\ \E fx \in SharedFiles :
       reader = [data |-> FileData(fx), len |-> FileLen(fx), eofAtEnd |-> fx.eof]
  /\ db = ZeroDB
  /\ openErr = "pending"
  /\ qs = [q \in Queries |-> IdleQuery]
  /\ last = NoLast
  /\ ioFailed = FALSE
  /\ RecordStringColor = FALSE
  /\ RecordStringMultiline = FALSE
  /\ gen = GenIdle
  /\ ip2location = LocIdle
  /\ \E n \in 0..MaxArgs : \E words \in [1..n -> ArgSample] :
       cli = [pc |-> "start", argv |-> <<"ip2x">> \o words]

NextCli == CliMain \/ CliOpen \/ CliLookup

SpecCli == InitCli /\ [][NextCli]_vars
\* ------------------------------------------------------------------------
\* Package ip2location
\* ------------------------------------------------------------------------

\* the highest db-type New accepts, which is also the length of the column
\* array of every field
DBTypeMax == 26

DBProductCode == 1

\* the column arrays [DBTypeMax]uint8{...} of Field.offset, element 0
\* first, in the order of the field bits: CountryShort, CountryLong, Region,
\* ..., Category
LocColumns ==
  <<<<0, 2, 2, 2, 2, 2, 2, 2, 2, 2, 2, 2, 2, 2, 2, 2, 2, 2, 2, 2, 2, 2, 2, 2, 2, 2>>,
    <<0, 2, 2, 2, 2, 2, 2, 2, 2, 2, 2, 2, 2, 2, 2, 2, 2, 2, 2, 2, 2, 2, 2, 2, 2, 2>>,
    <<0, 0, 0, 3, 3, 3, 3, 3, 3, 3, 3, 3, 3, 3, 3, 3, 3, 3, 3, 3, 3, 3, 3, 3, 3, 3>>,
    <<0, 0, 0, 4, 4, 4, 4, 4, 4, 4, 4, 4, 4, 4, 4, 4, 4, 4, 4, 4, 4, 4, 4, 4, 4, 4>>,
    <<0, 0, 3, 0, 5, 0, 7, 5, 7, 0, 8, 0, 9, 0, 9, 0, 9, 0, 9, 7, 9, 0, 9, 7, 9, 9>>,
    <<0, 0, 0, 0, 0, 5, 5, 0, 5, 5, 5, 5, 5, 5, 5, 5, 5, 5, 5, 5, 5, 5, 5, 5, 5, 5>>,
    <<0, 0, 0, 0, 0, 6, 6, 0, 6, 6, 6, 6, 6, 6, 6, 6, 6, 6, 6, 6, 6, 6, 6, 6, 6, 6>>,
    <<0, 0, 0, 0, 0, 0, 0, 6, 8, 0, 9, 0, 10, 0, 10, 0, 10, 0, 10, 8, 10, 0, 10, 8, 10, 10>>,
    <<0, 0, 0, 0, 0, 0, 0, 0, 0, 7, 7, 7, 7, 0, 7, 7, 7, 0, 7, 0, 7, 7, 7, 0, 7, 7>>,
    <<0, 0, 0, 0, 0, 0, 0, 0, 0, 0, 0, 8, 8, 7, 8, 8, 8, 7, 8, 0, 8, 8, 8, 0, 8, 8>>,
    <<0, 0, 0, 0, 0, 0, 0, 0, 0, 0, 0, 0, 0, 8, 11, 0, 11, 8, 11, 0, 11, 0, 11, 0, 11, 11>>,
    <<0, 0, 0, 0, 0, 0, 0, 0, 0, 0, 0, 0, 0, 0, 0, 9, 12, 0, 12, 0, 12, 9, 12, 0, 12, 12>>,
    <<0, 0, 0, 0, 0, 0, 0, 0, 0, 0, 0, 0, 0, 0, 0, 10, 13, 0, 13, 0, 13, 10, 13, 0, 13, 13>>,
    <<0, 0, 0, 0, 0, 0, 0, 0, 0, 0, 0, 0, 0, 0, 0, 0, 0, 9, 14, 0, 14, 0, 14, 0, 14, 14>>,
    <<0, 0, 0, 0, 0, 0, 0, 0, 0, 0, 0, 0, 0, 0, 0, 0, 0, 10, 15, 0, 15, 0, 15, 0, 15, 15>>,
    <<0, 0, 0, 0, 0, 0, 0, 0, 0, 0, 0, 0, 0, 0, 0, 0, 0, 0, 0, 9, 16, 0, 16, 9, 16, 16>>,
    <<0, 0, 0, 0, 0, 0, 0, 0, 0, 0, 0, 0, 0, 0, 0, 0, 0, 0, 0, 10, 17, 0, 17, 10, 17, 17>>,
    <<0, 0, 0, 0, 0, 0, 0, 0, 0, 0, 0, 0, 0, 0, 0, 0, 0, 0, 0, 11, 18, 0, 18, 11, 18, 18>>,
    <<0, 0, 0, 0, 0, 0, 0, 0, 0, 0, 0, 0, 0, 0, 0, 0, 0, 0, 0, 0, 0, 11, 19, 0, 19, 19>>,
    <<0, 0, 0, 0, 0, 0, 0, 0, 0, 0, 0, 0, 0, 0, 0, 0, 0, 0, 0, 0, 0, 0, 0, 12, 20, 20>>,
    <<0, 0, 0, 0, 0, 0, 0, 0, 0, 0, 0, 0, 0, 0, 0, 0, 0, 0, 0, 0, 0, 0, 0, 0, 0, 21>>,
    <<0, 0, 0, 0, 0, 0, 0, 0, 0, 0, 0, 0, 0, 0, 0, 0, 0, 0, 0, 0, 0, 0, 0, 0, 0, 22>>>>

\* the fields of the loops for f := Field(1); f < All; f <<= 1, by the
\* position of their bit
LocFields == 1..Len(LocColumns)

\* Field.offset: the byte offset of the column of field f in a row of
\* db-type t, and whether the field is present; indexing the array of
\* DBTypeMax elements with t >= DBTypeMax panics
offset(f, t) ==
  IF t >= DBTypeMax THEN [v |-> 0, ok |-> FALSE, panic |-> TRUE]
  ELSE IF LocColumns[f][t + 1] = 0 THEN [v |-> 0, ok |-> FALSE, panic |-> FALSE]
  ELSE [v |-> ((LocColumns[f][t + 1] + 256 - 2) % 256) * 4, ok |-> TRUE, panic |-> FALSE]

\* DBType.Fields: the set of the fields of the mask
Fields(t) ==
  IF t <= DBTypeMax
  THEN [v |-> {f \in LocFields : offset(f, t).ok},
        panic |-> \E f \in LocFields : offset(f, t).panic]
  ELSE [v |-> {}, panic |-> FALSE]

\* DBType.offsets
offsets(t) ==
  [v |-> [f \in LocFields |-> offset(f, t).v],
   panic |-> \E f \in LocFields : offset(f, t).panic]

\* New of package ip2location on a reader whose first 64 bytes decode to hdr,
\* or that is shorter than 64 bytes
LocNew(hdr, short) ==
  IF short THEN [err |-> "EOF", fld |-> {}, off |-> <<>>]
  ELSE IF hdr.databasetype = 80 /\ hdr.databasecolumn = 75   \* 'P', 'K'
    THEN [err |-> "ErrInvalidBin", fld |-> {}, off |-> <<>>]
  ELSE IF hdr.databaseyear >= 21 /\ hdr.productcode # DBProductCode
    THEN [err |-> "ErrInvalidBin", fld |-> {}, off |-> <<>>]
  ELSE IF hdr.databasetype > DBTypeMax
    THEN [err |-> "ErrInvalidBin", fld |-> {}, off |-> <<>>]
  ELSE IF Fields(hdr.databasetype).panic \/ offsets(hdr.databasetype).panic
    THEN [err |-> "panic", fld |-> {}, off |-> <<>>]
  ELSE [err |-> Nil, fld |-> Fields(hdr.databasetype).v, off |-> offsets(hdr.databasetype).v]

\* the headers of the sampled readers: every db-type byte, with a column
\* count, a year before and after product codes were introduced, and the
\* product codes of no product, IP2Location and IP2Proxy
LocHeaders ==
  [databasetype : 0..255, databasecolumn : {2, 75}, databaseyear : {20, 23},
   productcode : {0, 1, 2}]

InitLoc ==
  /\ reader = [data |-> FileData(BaseFx), len |-> FileLen(BaseFx), eofAtEnd |-> BaseFx.eof]
  /\ db = ZeroDB
  /\ openErr = "pending"
  /\ qs = [q \in Queries |-> IdleQuery]
  /\ last = NoLast
  /\ ioFailed = FALSE
  /\ RecordStringColor = FALSE
  /\ RecordStringMultiline = FALSE
  /\ gen = GenIdle
  /\ cli = CliIdle
  /\ \E hdr \in LocHeaders, short \in BOOLEAN :
       ip2location = [pc |-> "reader", hdr |-> hdr, short |-> short]

\* ip2location.New(r)
New ==
  /\ ip2location.pc = "reader"
  /\ ip2location' = [pc |-> "returned", hdr |-> ip2location.hdr, short |-> ip2location.short,
                      res |-> LocNew(ip2location.hdr, ip2location.short)]
  /\ UNCHANGED <<reader, db, openErr, qs, last, ioFailed, RecordStringColor, RecordStringMultiline, gen, cli>>

NextLoc == New

SpecLoc == InitLoc /\ [][NextLoc]_vars


\* ------------------------------------------------------------------------
\* The database as a linear scan sees it (the verifier's view of the file)
\* ------------------------------------------------------------------------

\* the n bytes of the file from byte offset o on
FileBytes(o, n) == [k \in 1..n |-> ByteAt(o + k - 1)]

\* a header word as a number (the generated files keep them below 2^31)
Num(u) == u[1] * Limb + u[2]

\* row count, byte offset of row 0 and row size of the array of a family
RowCount(iplen) == Num(IF iplen = 4 THEN db.ip4count ELSE db.ip6count)

ArrayStart(iplen) == Num(IF iplen = 4 THEN db.ip4base ELSE db.ip6base) - 1

RowSize(iplen) == iplen + (db.dbcolumn - 1) * 4

\* IPFrom of row i and the columns that follow it
RowIPFrom(iplen, i) ==
  IF iplen = 4
  THEN as_u32_u128(as_le_u32(FileBytes(ArrayStart(iplen) + i * RowSize(iplen), 4)))
  ELSE as_be_u128(FileBytes(ArrayStart(iplen) + i * RowSize(iplen), 16))

RowData(iplen, i) ==
  FileBytes(ArrayStart(iplen) + i * RowSize(iplen) + iplen, (db.dbcolumn - 1) * 4)

\* the array of a family is sorted strictly ascending by IPFrom
Sorted(iplen) ==
  \A i \in 0..(RowCount(iplen) - 2) : Less(RowIPFrom(iplen, i), RowIPFrom(iplen, i + 1))

\* the rows i with i + 1 <= N - 1 and IPFrom[i] <= ip < IPFrom[i + 1]
ScanRows(iplen, ip) ==
  {i \in 0..(RowCount(iplen) - 2) :
     ~Less(ip, RowIPFrom(iplen, i)) /\ Less(ip, RowIPFrom(iplen, i + 1))}

\* the index entry of the prefix of ip, if the family has an index
IndexBase(iplen) == IF iplen = 4 THEN db.ip4idx ELSE db.ip6idx

IndexEntry(iplen, ip) ==
  FileBytes(Num(IndexBase(iplen)) - 1 + 8 * (IF iplen = 4 THEN ip.lo[3] ELSE ip.hi[1]), 8)

\* no index, or the entry of ip's prefix has row i inside its window
IndexHolds(iplen, ip, i) ==
  \/ IndexBase(iplen) = U32Zero
  \/ /\ U32Leq(as_le_u32(SubSeq(IndexEntry(iplen, ip), 1, 4)), U32(i))
     /\ U32Leq(U32(i), as_le_u32(SubSeq(IndexEntry(iplen, ip), 5, 8)))
     /\ U32Leq(as_le_u32(SubSeq(IndexEntry(iplen, ip), 5, 8)), U32(RowCount(iplen) - 1))

\* a is an address of one family written natively: an IPv4 address, or an
\* IPv6 address outside ::ffff:0:0/96, 2002::/16 and 2001::/32
IsNative(a) ==
  \/ a.z = "z4"
  \/ /\ a.z = "z6"
     /\ a.hi[1] # 8194
     /\ ~(a.hi[1] = 8193 /\ a.hi[2] = 0)
     /\ ~(a.hi = U64Zero /\ a.lo[1] = 0 /\ a.lo[2] = 65535)

FamilyOf(a) == IF a.z = "z4" THEN 4 ELSE 16

\* the address as a number of its family
ValueOf(a) ==
  IF a.z = "z4" THEN [hi |-> U64Zero, lo |-> <<0, 0, a.lo[3], a.lo[4]>>]
  ELSE [hi |-> a.hi, lo |-> a.lo]

\* Lookup of query q has returned and no read of it was failed by the source
Returned(q) == openErr = Nil /\ qs[q].pc = "done" /\ ~qs[q].faulted

\* the record Lookup builds for row i
RowRecord(iplen, i) ==
  [r |-> "reader", p |-> db.prcode, t |-> db.dbtype, d |-> Slice(RowData(iplen, i))]

\* ------------------------------------------------------------------------
\* C1
\* ------------------------------------------------------------------------

\* C1: on an array sorted strictly ascending (no index, or an index whose
\* entry for the address has the row in its window), Lookup of an address a
\* with IPFrom[i] <= a < IPFrom[i+1], i+1 <= N-1, returns a valid record
\* holding exactly the non-IPFrom columns of row i, and no error.
C1_LookupFindsRow ==
  \A q \in Queries :
    (Returned(q) /\ IsNative(qs[q].a)
       /\ Sorted(FamilyOf(qs[q].a)))
    => \A i \in ScanRows(FamilyOf(qs[q].a), ValueOf(qs[q].a)) :
         IndexHolds(FamilyOf(qs[q].a), ValueOf(qs[q].a), i)
         => /\ qs[q].err = Nil
            /\ IsValid(qs[q].rec)
            /\ qs[q].rec = RowRecord(FamilyOf(qs[q].a), i)

\* an IPv6 lookup through the index that found a row other than row 0, for
\* the last address of that row's range
C1_Witness ==
  \E q \in Queries :
    /\ Returned(q) /\ qs[q].a.z = "z6" /\ IsNative(qs[q].a) /\ Sorted(16)
    /\ db.ip6idx # U32Zero
    /\ \E i \in ScanRows(16, ValueOf(qs[q].a)) :
         /\ i >= 1
         /\ IndexHolds(16, ValueOf(qs[q].a), i)
         /\ qs[q].a.lo[4] = Limb - 1
         /\ qs[q].rec = RowRecord(16, i)

\* ------------------------------------------------------------------------
\* C2
\* ------------------------------------------------------------------------

\* C2: Lookup of any way to write an IPv4 address (native, ::ffff:a, 2002:a::,
\* Teredo with the inverted address in the low 32 bits) returns the record
\* and the error that Lookup of the native address returned on this database.
C2_FormsAgree ==
  \A q \in Queries :
    (Returned(q) /\ last.set /\ qs[q].a \in FormsOf(last.base))
    => /\ qs[q].rec = last.rec
       /\ qs[q].err = last.err
       /\ \A f \in 1..(dbFieldUpper - 1) :
            get(qs[q].rec, f, FALSE) = get(last.rec, f, FALSE)

\* the Teredo form found the row that the native form had found
C2_Witness ==
  \E q \in Queries :
    /\ Returned(q) /\ last.set
    /\ qs[q].a = AddrOf("teredo", last.base)
    /\ IsValid(qs[q].rec)
    /\ qs[q].rec = last.rec
    /\ qs[q].nreads >= 2

\* ------------------------------------------------------------------------
\* C3
\* ------------------------------------------------------------------------

\* the little-endian uint32 at header offset o, read off the file
HeaderWord(o) == <<ByteAt(o + 3) * 256 + ByteAt(o + 2), ByteAt(o + 1) * 256 + ByteAt(o)>>

\* the handle a file with a good header gives
HeaderHandle ==
  [dbtype |-> ByteAt(0), dbcolumn |-> ByteAt(1),
   dbyear |-> ByteAt(2), dbmonth |-> ByteAt(3), dbday |-> ByteAt(4),
   ip4count |-> HeaderWord(5), ip4base |-> HeaderWord(9),
   ip6count |-> HeaderWord(13), ip6base |-> HeaderWord(17),
   ip4idx |-> HeaderWord(21), ip6idx |-> HeaderWord(25),
   prcode |-> ByteAt(29), prtype |-> ByteAt(30), filesize |-> HeaderWord(31)]

\* the columns the schema gives the fields of (product p, db-type t)
TableColumns(p, t) ==
  IF p \notin {IP2Location, IP2Proxy} THEN {}
  ELSE {r.cols[t] : r \in {x \in ProductSchema(p) : t \in 1..Len(x.cols) /\ x.cols[t] # 0}}

\* the first outcome of New that applies to the file, the 64-byte read
\* having succeeded
HeaderOutcome ==
  IF ByteAt(0) = 80 /\ ByteAt(1) = 75 THEN "database is zipped"
  ELSE IF ByteAt(3) \notin 1..12 \/ ByteAt(4) \notin 1..31 THEN "database is corrupt"
  ELSE IF ByteAt(2) < 21 THEN "database is too old"
  ELSE IF TableColumns(ByteAt(29), ByteAt(0)) = {} THEN "unsupported database"
  ELSE IF ByteAt(1) # Max(TableColumns(ByteAt(29), ByteAt(0)))
    THEN "database is corrupt or library is buggy"
  ELSE Nil

\* C3: New returns the first applicable outcome in the order read error,
\* zipped, corrupt date, too old, unsupported, column count mismatch, handle;
\* the handle has the header's little-endian values and exists only when
\* every check passed.
C3_NewOutcome ==
  openErr # "pending"
  => /\ openErr = Nil => db = HeaderHandle
     /\ openErr # Nil => db = ZeroDB
     /\ \/ openErr = "EIO"
        \/ openErr = (IF reader.len < 64 \/ (reader.len = 64 /\ reader.eofAtEnd)
                      THEN "EOF" ELSE HeaderOutcome)

\* New reported a corrupt date on a header that is also too old and of an
\* unknown product: the earlier check won
C3_Witness ==
  /\ openErr = "database is corrupt"
  /\ ByteAt(2) < 21
  /\ TableColumns(ByteAt(29), ByteAt(0)) = {}
  /\ db = ZeroDB

\* ------------------------------------------------------------------------
\* C4
\* ------------------------------------------------------------------------

\* some row's range holds ip, the last row's range running to the highest
\* address
Contained(iplen, ip) ==
  \E i \in 0..(RowCount(iplen) - 1) :
    /\ ~Less(ip, RowIPFrom(iplen, i))
    /\ i = RowCount(iplen) - 1 \/ Less(ip, RowIPFrom(iplen, i + 1))

\* C4: when no row's range holds the address and every read succeeded,
\* Lookup returns an invalid record and a nil error.
C4_MissIsInvalid ==
  \A q \in Queries :
    (Returned(q) /\ IsNative(qs[q].a)
       /\ RowCount(FamilyOf(qs[q].a)) >= 1 /\ Sorted(FamilyOf(qs[q].a))
       /\ ~Contained(FamilyOf(qs[q].a), ValueOf(qs[q].a))
       /\ qs[q].err = Nil)
    => ~IsValid(qs[q].rec)

\* ------------------------------------------------------------------------
\* C5
\* ------------------------------------------------------------------------

\* f is a defined field that the schema gives no column in (product p, db-type t)
Absent(p, t, f) ==
  /\ f \in 1..(dbFieldUpper - 1)
  /\ ~\E r \in ProductSchema(p) : r.field = f /\ t \in 1..Len(r.cols) /\ r.cols[t] # 0

\* query q holds the result of a call of op on its record
CalledOp(q, op) == qs[q].pc = "called" /\ qs[q].out.op = op

\* C5: for a valid record and a field absent from its (product, db-type),
\* Has is false, Get is nil, GetString is ("", false), GetFloat32 is
\* (0, false); get issues no read, sets no error and does not panic.
C5_AbsentField ==
  \A q \in Queries :
    /\ (CalledOp(q, "Has") /\ Absent(db.prcode, db.dbtype, qs[q].out.f))
       => (~qs[q].out.res.v /\ ~qs[q].out.res.panic)
    /\ \A op \in {"Get", "GetString", "GetFloat32"} :
         (CalledOp(q, op) /\ IsValid(qs[q].rec)
            /\ Absent(qs[q].rec.p, qs[q].rec.t, qs[q].out.f))
         => /\ ~qs[q].out.res.panic
            /\ qs[q].out.res.g.reads = 0
            /\ qs[q].out.res.g.err = Nil
            /\ op = "Get" => qs[q].out.res.v = NoValue
            /\ op = "GetString"
                 => (qs[q].out.res.v = StringValue(<<>>) /\ ~qs[q].out.res.ok)
            /\ op = "GetFloat32"
                 => (qs[q].out.res.v = Float32Zero /\ ~qs[q].out.res.ok)

\* GetString of ISP on a valid record of a database without ISP, on a source
\* that would fail a read
C5_Witness ==
  \E q \in Queries :
    /\ CalledOp(q, "GetString") /\ IsValid(qs[q].rec)
    /\ qs[q].out.f = ISP /\ Absent(qs[q].rec.p, qs[q].rec.t, ISP)
    /\ qs[q].out.fault
    /\ ~qs[q].out.res.ok

\* ------------------------------------------------------------------------
\* C6
\* ------------------------------------------------------------------------

\* the read Lookup is waiting for in state s, as the file answers it
PendingRead(s) ==
  IF s.pc = "index" THEN ReadAt(8, s.off) ELSE ReadAt(RowLen(s), RowOff(s))

\* C6: when a read issued by Lookup (index probe or row read) returns an
\* error, Lookup returns at once with that error and the empty record, and
\* issues no read after it.
C6_ReadErrorStops ==
  [][\A q \in Queries :
       /\ (qs[q].pc \in {"index", "search"} /\ qs'[q] # qs[q]
             /\ (qs'[q].faulted \/ PendingRead(qs[q]).err # Nil))
          => /\ qs'[q].pc = "done"
             /\ qs'[q].rec = ZeroRecord
             /\ qs'[q].err = (IF qs'[q].faulted THEN ReadFault.err
                              ELSE PendingRead(qs[q]).err)
             /\ qs'[q].nreads = qs[q].nreads + 1
       /\ (qs[q].pc = "done" /\ qs[q].err # Nil /\ qs'[q] # qs[q])
          => (qs'[q].pc = "idle" /\ qs'[q].nreads = 0 /\ qs'[q].rec = ZeroRecord)
    ]_vars

\* the source failed a row read that followed a successful index read
C6_Witness ==
  \E q \in Queries :
    /\ qs[q].pc = "done" /\ qs[q].faulted
    /\ qs[q].err = ReadFault.err
    /\ qs[q].nreads >= 2
    /\ db.ip4idx # U32Zero
    /\ qs[q].rec = ZeroRecord

\* ------------------------------------------------------------------------
\* C7
\* ------------------------------------------------------------------------

\* query q is in or after a LookupString of a string that is no IP address,
\* or a Lookup of the zero netip.Addr
NoAddress(q) ==
  /\ qs[q].pc \in {"index", "search", "done"}
  /\ qs[q].str \in {"", "0.0.0.256", "example.com"}
  /\ qs[q].str # "" \/ qs[q].a = ZeroAddr

\* C7: LookupString of a string that is no IP address and Lookup of the
\* zero netip.Addr return the empty record and a nil error without a read.
C7_NoAddressNoRead ==
  \A q \in Queries :
    NoAddress(q)
    => /\ qs[q].pc = "done"
       /\ qs[q].rec = ZeroRecord
       /\ qs[q].err = Nil
       /\ qs[q].nreads = 0

\* LookupString("example.com") has returned
C7_Witness ==
  \E q \in Queries :
    /\ openErr = Nil
    /\ qs[q].pc = "done" /\ qs[q].str = "example.com"
    /\ qs[q].rec = ZeroRecord /\ qs[q].err = Nil

\* ------------------------------------------------------------------------
\* C8
\* ------------------------------------------------------------------------

\* C8: on the zero Record IsValid is false, Get is nil, GetString and
\* GetFloat32 report ok == false, FormatString (and so String) is empty for
\* every flag, MarshalJSON is null with a nil error; no call reads or panics,
\* for every defined field.
C8_ZeroRecordUsable ==
  \A q \in Queries :
    (qs[q].pc = "called" /\ qs[q].rec = ZeroRecord)
    => /\ qs[q].out.op = "IsValid" => ~qs[q].out.res
       /\ (qs[q].out.op \in {"Get", "GetString", "GetFloat32"}
             /\ qs[q].out.f \in 1..(dbFieldUpper - 1))
          => (~qs[q].out.res.panic /\ qs[q].out.res.g.reads = 0)
       /\ (qs[q].out.op = "Get" /\ qs[q].out.f \in 1..(dbFieldUpper - 1))
          => qs[q].out.res.v = NoValue
       /\ (qs[q].out.op = "GetString" /\ qs[q].out.f \in 1..(dbFieldUpper - 1))
          => (~qs[q].out.res.ok /\ qs[q].out.res.v = StringValue(<<>>))
       /\ (qs[q].out.op = "GetFloat32" /\ qs[q].out.f \in 1..(dbFieldUpper - 1))
          => (~qs[q].out.res.ok /\ qs[q].out.res.v = Float32Zero)
       /\ qs[q].out.op = "FormatString" => qs[q].out.res = <<>>
       /\ qs[q].out.op = "MarshalJSON"
          => (qs[q].out.res.out = <<Lit("null")>> /\ qs[q].out.res.err = Nil)

\* MarshalJSON of the zero Record returned null, on a source that would fail
\* the read of a field
C8_Witness ==
  \E q \in Queries :
    /\ CalledOp(q, "MarshalJSON") /\ qs[q].rec = ZeroRecord
    /\ qs[q].out.bad # {}
    /\ qs[q].out.res.out = <<Lit("null")>>
    /\ qs[q].out.res.err = Nil

\* ------------------------------------------------------------------------
\* C9
\* ------------------------------------------------------------------------

\* the schema rows that make f a str pointer field of (product p, db-type t)
StrRows(p, t, f) ==
  {r \in ProductSchema(p) :
     /\ r.field = f /\ t \in 1..Len(r.cols) /\ r.cols[t] # 0
     /\ r.type = dbft_string /\ r.ptr # 255}

\* the little-endian uint32 in column col of the record's data
ColumnWord(rec, col) ==
  <<rec.d.b[(col - 2) * 4 + 4] * 256 + rec.d.b[(col - 2) * 4 + 3],
    rec.d.b[(col - 2) * 4 + 2] * 256 + rec.d.b[(col - 2) * 4 + 1]>>

\* the bytes a read of up to 256 bytes at byte offset o returns
Readable(o) == IF o >= reader.len THEN 0 ELSE Min(256, reader.len - o)

\* query q holds the result of a getter on a valid record for the str pointer
\* field described by schema row r, the source having answered the read
StrCall(q, r) ==
  /\ qs[q].pc = "called"
  /\ qs[q].out.op \in {"Get", "GetString", "GetFloat32"}
  /\ IsValid(qs[q].rec)
  /\ r \in StrRows(qs[q].rec.p, qs[q].rec.t, qs[q].out.f)
  /\ Len(qs[q].rec.d.b) >= (r.cols[qs[q].rec.t] - 1) * 4
  /\ ColumnWord(qs[q].rec, r.cols[qs[q].rec.t])[1] < Limb \div 2
  /\ ~qs[q].out.fault

\* where the value of that field starts in the file
StrTarget(q, r) == Num(ColumnWord(qs[q].rec, r.cols[qs[q].rec.t])) + r.ptr

\* C9: for a present str pointer field get reads once, at p + pointer_offset
\* with p the little-endian uint32 of the field's column; with n bytes read
\* and L the first of them, n >= L + 1 gives exactly the L bytes after the
\* length byte (an empty string for L = 0), and n < L + 1 gives no value and
\* io.ErrUnexpectedEOF.
C9_StringPayload ==
  \A q \in Queries :
    \A r \in ProductSchema(IP2Location) \cup ProductSchema(IP2Proxy) :
      StrCall(q, r)
      => /\ ~qs[q].out.res.panic
         /\ qs[q].out.res.g.reads = 1
         /\ qs[q].out.res.g.roff = U32(StrTarget(q, r))
         /\ IF Readable(StrTarget(q, r)) >= ByteAt(StrTarget(q, r)) + 1
            THEN /\ ~qs[q].out.res.g.dt.nil
                 /\ qs[q].out.res.g.dt.b
                      = FileBytes(StrTarget(q, r) + 1, ByteAt(StrTarget(q, r)))
                 /\ qs[q].out.op \in {"Get", "GetString"}
                      => qs[q].out.res.v = StringValue(qs[q].out.res.g.dt.b)
                 /\ qs[q].out.op = "GetString" => qs[q].out.res.ok
            ELSE /\ qs[q].out.res.g.dt.nil
                 /\ qs[q].out.res.g.err = "unexpected EOF"
                 /\ qs[q].out.op = "Get" => qs[q].out.res.v = NoValue
                 /\ qs[q].out.op # "Get" => ~qs[q].out.res.ok

\* GetString of a field with pointer offset 3 whose payload has L = 0
\* returned a present empty string
C9_Witness ==
  \E q \in Queries :
    \E r \in ProductSchema(IP2Location) \cup ProductSchema(IP2Proxy) :
      /\ StrCall(q, r)
      /\ qs[q].out.op = "GetString"
      /\ r.ptr = 3
      /\ Readable(StrTarget(q, r)) >= 1
      /\ ByteAt(StrTarget(q, r)) = 0
      /\ qs[q].out.res.ok
      /\ qs[q].out.res.v = StringValue(<<>>)

\* ------------------------------------------------------------------------
\* C10
\* ------------------------------------------------------------------------

\* query q holds the result of GetFloat32 on a valid record for the str
\* pointer field described by schema row r
Float32Call(q, r) ==
  /\ CalledOp(q, "GetFloat32")
  /\ IsValid(qs[q].rec)
  /\ r \in StrRows(qs[q].rec.p, qs[q].rec.t, qs[q].out.f)
  /\ Len(qs[q].rec.d.b) >= (r.cols[qs[q].rec.t] - 1) * 4
  /\ ColumnWord(qs[q].rec, r.cols[qs[q].rec.t])[1] < Limb \div 2

\* the string of that field as the file holds it
StrText(q, r) == FileBytes(StrTarget(q, r) + 1, ByteAt(StrTarget(q, r)))

\* the source answered the read and the file holds the whole string
StrReadable(q, r) ==
  /\ ~qs[q].out.fault
  /\ Readable(StrTarget(q, r)) >= ByteAt(StrTarget(q, r)) + 1

\* C10: GetFloat32 on a present str column returns (value, true) with the
\* value of the decimal text when the string parses, and (0, false) when it
\* does not parse or its payload could not be read.
C10_Float32OfString ==
  \A q \in Queries :
    \A r \in ProductSchema(IP2Location) \cup ProductSchema(IP2Proxy) :
      Float32Call(q, r)
      => /\ ~qs[q].out.res.panic
         /\ IF StrReadable(q, r) /\ ParseFloat(StrText(q, r)).ok
            THEN /\ qs[q].out.res.ok
                 /\ qs[q].out.res.v = Float32Dec(ParseFloat(StrText(q, r)).v)
            ELSE /\ ~qs[q].out.res.ok
                 /\ qs[q].out.res.v = Float32Zero

\* GetFloat32 returned -7 for a field whose string is "-7"
C10_Witness ==
  \E q \in Queries :
    \E r \in ProductSchema(IP2Location) \cup ProductSchema(IP2Proxy) :
      /\ Float32Call(q, r) /\ StrReadable(q, r)
      /\ StrText(q, r) = <<45, 55>>
      /\ qs[q].out.res.ok
      /\ qs[q].out.res.v = Float32Dec(<<1, 7, 0>>)

\* ------------------------------------------------------------------------
\* C11
\* ------------------------------------------------------------------------

\* C11: once New has returned a handle, no step of any operation (Lookup,
\* LookupString, Has, EachField, Info, Version, String, the Record getters
\* and formatters), whether it succeeds, misses or fails, changes a field of
\* the handle or a byte or the length of what the reader reads.
C11_HandleUnchanged ==
  [][openErr = Nil => (db' = db /\ reader' = reader /\ openErr' = openErr)]_vars

\* a Lookup through an index has failed on a read, and the handle is still
\* the one New decoded from the header
C11_Witness ==
  \E q \in Queries :
    /\ openErr = Nil /\ qs[q].pc = "done" /\ qs[q].err = "EIO" /\ qs[q].nreads = 2
    /\ db = HeaderHandle /\ db.ip4idx # U32Zero

\* ------------------------------------------------------------------------
\* C12
\* ------------------------------------------------------------------------

\* C12: with two queries interleaved read by read on one handle, each
\* Lookup whose reads the source answered returns the record and error it
\* returns when run alone, and each field read on a record holding a row
\* gives the string stored for that row.
C12_QueriesIndependent ==
  \A q \in DOMAIN qs :
    /\ (qs[q].pc = "done" /\ ~qs[q].faulted)
         => /\ qs[q].rec = RunAlone(LookupEnter(IdleQuery, qs[q].a)).rec
            /\ qs[q].err = RunAlone(LookupEnter(IdleQuery, qs[q].a)).err
    /\ (qs[q].pc = "called" /\ ~qs[q].out.fault /\ qs[q].out.f = CountryCode
        /\ IsValid(qs[q].rec))
         => \A i \in 0..(MaxRows - 1) :
              qs[q].rec.d.b = RowCols([BaseFx EXCEPT !.t = 5, !.c = 6, !.n = MaxRows], i)
              => /\ qs[q].out.res.v = StringValue(SubSeq(Payload(i), 2, 1 + Payload(i)[1]))
                 /\ qs[q].out.res.ok

\* both queries are in the binary search at different rows, and one of them
\* then returns a record
C12_Witness ==
  /\ DOMAIN qs = 1..2
  /\ qs[1].pc = "done" /\ IsValid(qs[1].rec) /\ qs[1].nreads >= 2
  /\ qs[2].pc = "search" /\ qs[2].nreads >= 1 /\ qs[2].ip # qs[1].ip
  /\ RowOff(qs[2]) # qs[1].roff

\* ------------------------------------------------------------------------
\* C13
\* ------------------------------------------------------------------------

\* C13 as stated: once a Lookup on the handle has failed with an I/O error,
\* every query that returns on that handle returns an error and no record.
C13_DeadAfterIOError ==
  \A q \in Queries :
    (ioFailed /\ qs[q].pc = "done") => (qs[q].err # Nil /\ ~IsValid(qs[q].rec))

\* C13 as amended: an I/O error fails only the Lookup it occurs in; every
\* Lookup that returns after it, its own reads answered, returns the record
\* and error it returns on a handle on which nothing ever failed.
C13_FailureNotSticky ==
  \A q \in Queries :
    (ioFailed /\ qs[q].pc = "done" /\ ~qs[q].faulted)
      => /\ qs[q].rec = RunAlone(LookupEnter(IdleQuery, qs[q].a)).rec
         /\ qs[q].err = RunAlone(LookupEnter(IdleQuery, qs[q].a)).err

\* after a failed Lookup, a Lookup on the same handle found a row
C13_Witness ==
  \E q \in Queries :
    /\ ioFailed /\ qs[q].pc = "done" /\ qs[q].err = Nil /\ IsValid(qs[q].rec)
    /\ qs[q].nreads >= 2

\* ------------------------------------------------------------------------
\* C14
\* ------------------------------------------------------------------------

\* C14 as stated: no result depends on a value another caller can change;
\* Record.String of a record gives the text it gives with the package as it
\* was loaded.
C14_NoMutableGlobals ==
  \A q \in Queries :
    CalledOp(q, "String")
      => qs[q].out.res = FormatString(qs[q].rec, FALSE, FALSE, qs[q].out.bad)

\* C14 as amended: the package has two mutable variables, RecordStringColor
\* and RecordStringMultiline, and Record.String alone reads them: the text
\* it returns for a valid record has colour codes exactly when
\* RecordStringColor is set at the call and line breaks exactly when
\* RecordStringMultiline is, while the text FormatString returns follows
\* its arguments whatever the two variables hold.
C14_OnlyStringOptions ==
  [][\A q \in Queries :
       (qs[q].pc = "idle" /\ qs'[q].pc = "called" /\ IsValid(qs[q].rec))
       => /\ qs'[q].out.op = "String"
               => /\ RecordStringColor
                       <=> (\E k \in DOMAIN qs'[q].out.res : qs'[q].out.res[k] = Lit("ESC[0m"))
                  /\ RecordStringMultiline
                       <=> (\E k \in DOMAIN qs'[q].out.res : qs'[q].out.res[k] = Lit("\n}"))
          /\ qs'[q].out.op = "FormatString"
               => /\ qs'[q].out.color
                       <=> (\E k \in DOMAIN qs'[q].out.res : qs'[q].out.res[k] = Lit("ESC[0m"))
                  /\ qs'[q].out.multiline
                       <=> (\E k \in DOMAIN qs'[q].out.res : qs'[q].out.res[k] = Lit("\n}"))]_vars

\* Record.String of a row's record wrote colour codes and no line break:
\* another caller had set RecordStringColor
C14_Witness ==
  \E q \in Queries :
    /\ CalledOp(q, "String") /\ IsValid(qs[q].rec)
    /\ RecordStringColor /\ ~RecordStringMultiline
    /\ qs[q].out.res[1] = Lit("ESC[34m")
    /\ qs[q].out.res[Len(qs[q].out.res) - 1] = Lit("}")

\* ------------------------------------------------------------------------
\* C15
\* ------------------------------------------------------------------------

\* C15: whatever the file holds and whatever address is looked up, New,
\* Lookup and the getters Get, GetString and GetFloat32 of a defined field
\* return (a record or a value, or an error): none of them panics.
C15_NeverPanics ==
  /\ openErr # "panic"
  /\ \A q \in Queries :
       /\ qs[q].err # "panic"
       /\ (qs[q].pc = "called" /\ qs[q].out.op \in {"Get", "GetString", "GetFloat32"}
           /\ qs[q].out.f \in 1..(dbFieldUpper - 1))
            => ~qs[q].out.res.panic

\* ------------------------------------------------------------------------
\* C16
\* ------------------------------------------------------------------------

\* the column lines of schema that are present in database type t
PresentIn(schema, t) == {n \in DOMAIN schema.lines : schema.lines[n].num[t] # Dot}

\* in database type t the column numbers of the present fields are 2, 3, ...
\* with no gap, and two fields have the same number only when both are
\* pointers with different offsets
ColumnsInOrder(schema, t) ==
  LET present == PresentIn(schema, t)
      nums == {schema.lines[n].num[t] : n \in present}
  IN /\ nums = 2..(1 + Cardinality(nums))
     /\ \A m, n \in present :
          (m # n /\ schema.lines[m].num[t] = schema.lines[n].num[t])
            => /\ schema.lines[m].at # Dot
               /\ schema.lines[n].at # Dot
               /\ schema.lines[m].at # schema.lines[n].at

\* the parser has returned from a product whose column lines have one word,
\* "." or a number from 2 to 255, for each database type
ParsedProduct ==
  /\ gen.pc = "parsed"
  /\ gen.schema.format = "product"
  /\ \A n \in DOMAIN gen.schema.lines : Len(gen.schema.lines[n].num) = gen.schema.types

\* C16: the parser accepts a product only if in every database type the
\* column numbers of the present fields run from 2 without a gap and a
\* number is shared only by pointer columns with different offsets; every
\* other product, for any column number from 2 to 255, is rejected with an
\* error.
C16_ColumnsChecked ==
  ParsedProduct
    => /\ gen.err = Nil => \A t \in 1..gen.schema.types : ColumnsInOrder(gen.schema, t)
       /\ (\E t \in 1..gen.schema.types : ~ColumnsInOrder(gen.schema, t)) => gen.err = "error"

\* ------------------------------------------------------------------------
\* C17
\* ------------------------------------------------------------------------

\* the schema declares a str column that is not a pointer: no "@offset" in
\* the current format, the qualifier "=" in the older one
InlineStr(schema) ==
  \E n \in DOMAIN schema.lines :
    /\ schema.lines[n].type = "str"
    /\ IF schema.format = "product" THEN schema.lines[n].at = Dot
       ELSE schema.lines[n].qual = "="

\* C17: a schema that declares a str column without pointer semantics is
\* rejected by the parser with an error, and the generator never writes a
\* descriptor of storage type str whose pointer offset is the inline
\* sentinel 0xFF.
C17_InlineStrRejected ==
  /\ (gen.pc = "parsed" /\ InlineStr(gen.schema)) => gen.err = "error"
  /\ gen.pc = "generated"
       => \A d \in gen.descs : ~(d.type = dbft_string /\ d.ptr = 255)

\* ------------------------------------------------------------------------
\* C18
\* ------------------------------------------------------------------------

\* the command line names the database file and no address: its words are
\* the path, once, and flags of the command
PathOnly(argv) ==
  /\ \A k \in 2..Len(argv) : argv[k] \in {"db", "-json", "-compact", "-strict"}
  /\ Cardinality({k \in 2..Len(argv) : argv[k] = "db"}) = 1

\* C18: started with the path of a database and no address, the command
\* opens the database, prints the one line DB.String gives for it and exits
\* with status 0; it is not a usage error.
C18_InfoLine ==
  (cli.pc = "exited" /\ PathOnly(cli.argv))
    => /\ cli.code = 0
       /\ openErr = Nil
       /\ Len(cli.out) = 1
       /\ cli.out[1].v = DBString

\* ------------------------------------------------------------------------
\* C19
\* ------------------------------------------------------------------------

\* the 16-bit group k of a 128-bit address, group 0 being bits 127..112
Group(u, k) == IF k < 4 THEN u.hi[k + 1] ELSE u.lo[k - 3]

\* the IPv4 address whose two halves are x and y, all higher bits zero
AsIPv4(x, y) == <<[hi |-> U64Zero, lo |-> <<0, 0, x, y>>], 4>>

\* what the four ordered normalisation rules give for u
Normalised(u) ==
  IF Group(u, 0) = 8194 THEN AsIPv4(Group(u, 1), Group(u, 2))
  ELSE IF Group(u, 0) = 8193 /\ Group(u, 1) = 0
  THEN AsIPv4(65535 - Group(u, 6), 65535 - Group(u, 7))
  ELSE IF (\A k \in 0..4 : Group(u, k) = 0) /\ Group(u, 5) = 65535
  THEN AsIPv4(Group(u, 6), Group(u, 7))
  ELSE <<u, 16>>

\* C19: unmap agrees with the four ordered rules on every address: bits
\* 127..112 = 0x2002 gives bits 111..80, else bits 127..96 = 0x20010000
\* gives the inverse of bits 31..0, else bits 127..32 = 0xffff gives bits
\* 31..0, each as an IPv4 address of length 4 with all higher bits zero;
\* every other address is returned unchanged with length 16.
C19_UnmapRules ==
  \A q \in Queries :
    (qs[q].pc # "idle" /\ AddrIsValid(qs[q].a))
      => <<qs[q].ip, qs[q].iplen>> = Normalised(as_ip6_uint8(qs[q].a))

\* Lookup has normalised a 6to4 address whose bits below bit 80 are not
\* zero to the IPv4 address in its bits 111..80
C19_Witness ==
  \E q \in Queries :
    /\ qs[q].pc # "idle"
    /\ Group(qs[q].a, 0) = 8194 /\ Group(qs[q].a, 3) # 0
    /\ qs[q].iplen = 4
    /\ qs[q].ip.lo = <<0, 0, Group(qs[q].a, 1), Group(qs[q].a, 2)>>

\* ------------------------------------------------------------------------
\* C20
\* ------------------------------------------------------------------------

\* the header's row count of the family the query's address belongs to
FamilyCount(s) == IF s.iplen = 4 THEN db.ip4count ELSE db.ip6count

\* C20: when the header's row count of the queried family is 0, Lookup
\* returns no record and no error, whatever the array bases hold, and reads
\* no row.
C20_EmptyFamily ==
  \A q \in Queries :
    (qs[q].pc = "done" /\ AddrIsValid(qs[q].a) /\ openErr = Nil
     /\ FamilyCount(qs[q]) = U32Zero)
      => /\ qs[q].err = Nil
         /\ ~IsValid(qs[q].rec)
         /\ qs[q].nreads = 0

\* ------------------------------------------------------------------------
\* C21
\* ------------------------------------------------------------------------

\* C21: on a sorted array of N >= 1 rows (no index, or an index whose entry
\* for the address has row N-1 in its window), Lookup of an address a of the
\* family with a >= IPFrom[N-1] returns the record of row N-1 and no error,
\* whatever bytes follow the array.
C21_LastRowToMax ==
  \A q \in Queries :
    (Returned(q) /\ IsNative(qs[q].a)
       /\ RowCount(FamilyOf(qs[q].a)) >= 1 /\ Sorted(FamilyOf(qs[q].a))
       /\ ~Less(ValueOf(qs[q].a),
                RowIPFrom(FamilyOf(qs[q].a), RowCount(FamilyOf(qs[q].a)) - 1))
       /\ IndexHolds(FamilyOf(qs[q].a), ValueOf(qs[q].a), RowCount(FamilyOf(qs[q].a)) - 1))
    => /\ qs[q].err = Nil
       /\ qs[q].rec = RowRecord(FamilyOf(qs[q].a), RowCount(FamilyOf(qs[q].a)) - 1)

\* ------------------------------------------------------------------------
\* C22
\* ------------------------------------------------------------------------

\* query q holds the result of a getter on a valid record for the inline
\* f32 field described by schema row r, the record holding the field's column
InlineCall(q, r) ==
  /\ qs[q].pc = "called"
  /\ qs[q].out.op \in {"Get", "GetString", "GetFloat32"}
  /\ IsValid(qs[q].rec)
  /\ r.field = qs[q].out.f /\ qs[q].rec.t \in 1..Len(r.cols) /\ r.cols[qs[q].rec.t] # 0
  /\ r.type = dbft_f32le /\ r.ptr = 255
  /\ Len(qs[q].rec.d.b) >= (r.cols[qs[q].rec.t] - 1) * 4

\* the 4 bytes of column c in the record's data
ColumnBytes(rec, c) == SubSeq(rec.d.b, (c - 2) * 4 + 1, (c - 2) * 4 + 4)

\* C22: for a present inline f32 field in any column c of the row, the last
\* one included, Get, GetFloat32 and GetString succeed with the float whose
\* bits are the 4 little-endian bytes at offset (c - 2) * 4 of the record's
\* data, and no positional read is made.
C22_InlineFloat ==
  \A q \in Queries :
    \A r \in ProductSchema(IP2Location) \cup ProductSchema(IP2Proxy) :
      InlineCall(q, r)
      => /\ ~qs[q].out.res.panic
         /\ qs[q].out.res.g.reads = 0
         /\ ~qs[q].out.res.g.dt.nil
         /\ qs[q].out.res.g.err = Nil
         /\ qs[q].out.op \in {"Get", "GetFloat32"}
              => qs[q].out.res.v
                   = Float32Bits(ColumnBytes(qs[q].rec, r.cols[qs[q].rec.t]))
         /\ qs[q].out.op = "GetString"
              => qs[q].out.res.v
                   = FormatFloat(ColumnBytes(qs[q].rec, r.cols[qs[q].rec.t]))
         /\ qs[q].out.op # "Get" => qs[q].out.res.ok

\* ------------------------------------------------------------------------
\* C23
\* ------------------------------------------------------------------------

\* the window [s.lower, s.upper] lies inside [t.lower, t.upper] and is
\* smaller
Shrunk(s, t) ==
  /\ U32Leq(t.lower, s.lower)
  /\ U32Leq(s.upper, t.upper)
  /\ s.lower # t.lower \/ s.upper # t.upper

\* C23: every iteration of the binary search that does not return leaves a
\* search window strictly inside the one it started with, whatever the
\* header, the index entry and the rows hold, so that Lookup ends after at
\* most one index read and a number of row reads logarithmic in the first
\* window.
C23_WindowShrinks ==
  [][\A q \in Queries :
       (qs[q].pc = "search" /\ qs'[q].pc = "search") => Shrunk(qs'[q], qs[q])]_vars

\* ------------------------------------------------------------------------
\* C24
\* ------------------------------------------------------------------------

\* the lowest and the highest address of the family whose 16-bit prefix is
\* that of ip
PrefixLow(iplen, ip) ==
  IF iplen = 4 THEN [hi |-> U64Zero, lo |-> <<0, 0, ip.lo[3], 0>>]
  ELSE [hi |-> <<ip.hi[1], 0, 0, 0>>, lo |-> U64Zero]

PrefixHigh(iplen, ip) ==
  IF iplen = 4 THEN [hi |-> U64Zero, lo |-> <<0, 0, ip.lo[3], Limb - 1>>]
  ELSE [hi |-> <<ip.hi[1], Limb - 1, Limb - 1, Limb - 1>>,
        lo |-> <<Limb - 1, Limb - 1, Limb - 1, Limb - 1>>]

\* the family has an index and every row that is the correct row of some
\* address with the prefix of ip lies in the window of that prefix's entry,
\* which does not reach beyond the array
Consistent(iplen, ip) ==
  /\ IndexBase(iplen) # U32Zero
  /\ U32Leq(as_le_u32(SubSeq(IndexEntry(iplen, ip), 5, 8)), U32(RowCount(iplen)))
  /\ \A i \in 0..(RowCount(iplen) - 1) :
       (/\ ~Less(PrefixHigh(iplen, ip), RowIPFrom(iplen, i))
        /\ i = RowCount(iplen) - 1 \/ Less(PrefixLow(iplen, ip), RowIPFrom(iplen, i + 1)))
       => /\ U32Leq(as_le_u32(SubSeq(IndexEntry(iplen, ip), 1, 4)), U32(i))
          /\ U32Leq(U32(i), as_le_u32(SubSeq(IndexEntry(iplen, ip), 5, 8)))

\* Lookup of the address of s on the same handle with the index base taken
\* as 0: the search from the window [0, row_count] to its return
WithoutIndex(s) ==
  RunAlone(LoopHead([IdleQuery EXCEPT !.a = s.a, !.ip = s.ip, !.iplen = s.iplen,
                                      !.colsize = s.colsize,
                                      !.upper = IF s.iplen = 4 THEN db.ip4count
                                                ELSE db.ip6count]))

\* C24: when the index is consistent with the sorted array, Lookup through
\* the index returns for every address the record and the error that Lookup
\* returns on the same array with the index base 0, and the entry it reads
\* is the 8 bytes at index_base - 1 + 8 * prefix16.
C24_IndexRefines ==
  \A q \in Queries :
    (Returned(q) /\ AddrIsValid(qs[q].a) /\ Sorted(qs[q].iplen)
       /\ Consistent(qs[q].iplen, qs[q].ip))
    => /\ qs[q].rec = WithoutIndex(qs[q]).rec
       /\ qs[q].err = WithoutIndex(qs[q]).err

\* ------------------------------------------------------------------------
\* C25
\* ------------------------------------------------------------------------

\* the column numbers the accepted product assigns to fields of db-type t
AssignedColumns(g, t) ==
  {g.cols[f].DatabaseColumn[t] : f \in {n \in DOMAIN g.cols : g.cols[n].DatabaseColumn[t] # 0}}

\* C25: for every accepted product and every db-type, the column count
\* emitted into the descriptor table is 1 (IPFrom) plus the number of
\* distinct column numbers assigned to fields of that db-type, and the
\* assigned columns are exactly 2 .. count.
C25_ColumnCount ==
  (gen.pc = "generated" /\ gen.schema.format = "product")
  => \A t \in 1..gen.dbTypeMax :
       /\ gen.dbfd[t].dbFieldColumns = 1 + Cardinality(AssignedColumns(gen, t))
       /\ AssignedColumns(gen, t) = 2..gen.dbfd[t].dbFieldColumns

\* ------------------------------------------------------------------------
\* C26
\* ------------------------------------------------------------------------

\* the fields the open database has
PresentFields == {f \in 1..(dbFieldUpper - 1) : Has(f).v}

\* the fields a sequence of calls of fn was made with
Visited(res) == {res[i] : i \in DOMAIN res}

\* C26: EachField calls fn once for each present field, in strictly
\* increasing field order and never for an absent field; it stops right
\* after the first call in which fn returns false (here the stop-th call),
\* and makes no call when fn is nil.
C26_EachField ==
  \A q \in Queries :
    (qs[q].pc = "called" /\ qs[q].out.op = "EachField")
    => /\ \A i \in DOMAIN qs[q].out.res : \A j \in DOMAIN qs[q].out.res :
            i < j => qs[q].out.res[i] < qs[q].out.res[j]
       /\ Visited(qs[q].out.res) \subseteq PresentFields
       /\ qs[q].out.fn.nil => qs[q].out.res = <<>>
       /\ (~qs[q].out.fn.nil
             /\ (qs[q].out.fn.stop = 0 \/ qs[q].out.fn.stop > Cardinality(PresentFields)))
          => Visited(qs[q].out.res) = PresentFields
       /\ (~qs[q].out.fn.nil /\ qs[q].out.fn.stop \in 1..Cardinality(PresentFields))
          => /\ Len(qs[q].out.res) = qs[q].out.fn.stop
             /\ \A f \in PresentFields :
                  f < qs[q].out.res[Len(qs[q].out.res)] => f \in Visited(qs[q].out.res)

\* on a database with more than two fields, fn returned false at its second
\* call and was called with the first two present fields only
C26_Witness ==
  \E q \in Queries :
    /\ qs[q].pc = "called" /\ qs[q].out.op = "EachField"
    /\ ~qs[q].out.fn.nil /\ qs[q].out.fn.stop = 2
    /\ Cardinality(PresentFields) > 2
    /\ Len(qs[q].out.res) = 2
    /\ \E f \in PresentFields : f > qs[q].out.res[2]

\* ------------------------------------------------------------------------
\* C27
\* ------------------------------------------------------------------------

\* f is not the number of a defined field
Undefined(f) == f <= 0 \/ f >= dbFieldUpper

\* C27: for a DBField value that is not the number of a defined field, Has
\* answers false and Get, GetString and GetFloat32 answer nil / ok == false,
\* and none of them indexes the descriptor table out of range (panics).
C27_UndefinedFieldAbsent ==
  \A q \in Queries :
    (qs[q].pc = "called" /\ qs[q].out.op \in {"Has", "Get", "GetString", "GetFloat32"}
       /\ Undefined(qs[q].out.f))
    => /\ ~qs[q].out.res.panic
       /\ qs[q].out.op = "Has" => ~qs[q].out.res.v
       /\ qs[q].out.op = "Get" => qs[q].out.res.v = NoValue
       /\ qs[q].out.op \in {"GetString", "GetFloat32"} => ~qs[q].out.res.ok

\* ------------------------------------------------------------------------
\* C28
\* ------------------------------------------------------------------------

\* the integer mid * row_size + array_base - 1 of the iteration at s, divided
\* by 2^16 (rounded down)
RowOffHigh(s) ==
  Mid(s)[1] * s.colsize[2] + (IF s.iplen = 4 THEN db.ip4base ELSE db.ip6base)[1]
    + ((Mid(s)[2] * s.colsize[2] + (IF s.iplen = 4 THEN db.ip4base ELSE db.ip6base)[2]
        - 1 + Limb) \div Limb) - 1

\* the integer index_base + 8 * prefix16 - 1 of the probe at s, divided by
\* 2^16 (rounded down)
IndexOffHigh(s) ==
  (IF s.iplen = 4 THEN db.ip4idx ELSE db.ip6idx)[1]
    + (((IF s.iplen = 4 THEN db.ip4idx ELSE db.ip6idx)[2]
        + 8 * (IF s.iplen = 4 THEN s.ip.lo[3] ELSE s.ip.hi[1]) - 1 + Limb) \div Limb) - 1

\* C28: the 32-bit arithmetic of Lookup never wraps: the index offset
\* index_base + 8 * prefix16 - 1 and every row offset
\* mid * row_size + array_base - 1 lie in [0, 2^32 - 1], every iteration has
\* lower <= mid <= upper, and no iteration with mid = 0 executes
\* upper = mid - 1.
C28_NoWrap ==
  [][\A q \in Queries :
       /\ (qs[q].pc = "index" /\ qs'[q].nreads = qs[q].nreads + 1)
          => IndexOffHigh(qs[q]) \in 0..(Limb - 1)
       /\ (qs[q].pc = "search" /\ qs'[q].nreads = qs[q].nreads + 1)
          => /\ U32Leq(qs[q].lower, Mid(qs[q]))
             /\ U32Leq(Mid(qs[q]), qs[q].upper)
             /\ RowOffHigh(qs[q]) \in 0..(Limb - 1)
             /\ Mid(qs[q]) = U32Zero => qs'[q].upper = qs[q].upper]_vars

\* ------------------------------------------------------------------------
\* C29
\* ------------------------------------------------------------------------

\* getdbfd returns a valid descriptor for some field of (p, t)
SomeField(g, p, t) == \E f \in 0..(g.dbFieldMax + 1) : getdbfd(g, p, t, f).valid

\* C29: for every product and every db-type t from 1 up to and including
\* dbTypeMax, whenever getdbfd returns a valid descriptor for some field of
\* (p, t), getdbcols(p, t) returns the column count emitted for (p, t),
\* which is not zero.
C29_SamePairs ==
  (gen.pc = "generated" /\ gen.schema.format = "product")
  => \A p \in 0..(gen.dbProductMax + 1) : \A t \in 1..gen.dbTypeMax :
       SomeField(gen, p, t)
       => /\ getdbcols(gen, p, t) # 0
          /\ getdbcols(gen, p, t) = gen.dbfd[t].dbFieldColumns

\* ------------------------------------------------------------------------
\* C30
\* ------------------------------------------------------------------------

\* C30: New of package ip2location never panics: for every db-type byte of
\* the header it returns an error or a handle, and the db-type of every
\* handle it returns is a valid index into the column array of every field.
C30_NewNeverPanics ==
  ip2location.pc = "returned"
  => /\ ip2location.res.err # "panic"
     /\ ip2location.res.err = Nil
        => \A f \in LocFields : ip2location.hdr.databasetype + 1 \in DOMAIN LocColumns[f]
====
